---- MODULE Spec2Model ----
(***************************************************************************)
(* EXIF Data Manager (src/src): the file system the application works on,  *)
(* the EXIFProcessor and BatchProcessor calls as sequences of library      *)
(* calls, the Worker threads that run them, and the MainWindow slots that  *)
(* start Workers and receive their signals.                                *)
(*                                                                         *)
(* A path is the record pathlib.Path splits it into (parent, stem,         *)
(* suffix); a file's content is its container kind and its EXIF tags by    *)
(* numeric tag id; a message is the sequence of its parts.                 *)
(***************************************************************************)
EXTENDS Integers, Sequences, FiniteSets, TLC

VARIABLES
    fs,        \* file system: existing path -> content
    workers,   \* the calls started so far, in order of start: frame records
    events,    \* the signals emitted by Workers (and the callbacks made), in order
    delivered, \* how many of them the UI thread's event loop has delivered
    snap,      \* history: the file system at construction and at the last call's start
    win        \* MainWindow, SingleImageTab and BatchProcessingTab fields

vars == <<fs, workers, events, delivered, snap, win>>

----------------------------------------------------------------------------
(* Bounds *)

MaxWorkers == 3
MaxCalls == 3
MaxEdits == 1
MaxFiles == 2

----------------------------------------------------------------------------
(* Paths *)

ImgA == [parent |-> "d", stem |-> "a", suffix |-> ".jpg"]
ImgB == [parent |-> "d", stem |-> "b", suffix |-> ".png"]

\* image_path + ".backup"
BackupPath(p) == [parent |-> p.parent, stem |-> p.stem \o p.suffix, suffix |-> ".backup"]

\* base_path.parent / f"{base_path.stem}_modified{base_path.suffix}"
ModifiedPath(p) == [parent |-> p.parent, stem |-> p.stem \o "_modified", suffix |-> p.suffix]

\* os.path.basename
Basename(p) == p.stem \o p.suffix

NoPath == [parent |-> "", stem |-> "", suffix |-> ""]

----------------------------------------------------------------------------
(* EXIF values, tags and file contents *)

StrV(x) == [t |-> "str", i |-> 0, s |-> x]
IntV(n) == [t |-> "int", i |-> n, s |-> ""]

\* a float, held as its repr text, and a dict (such as GPSInfo), held as the text
\* json.dumps(value, indent=2) makes of it
FloatV(x) == [t |-> "float", i |-> 0, s |-> x]
DictV(x) == [t |-> "dict", i |-> 0, s |-> x]

\* a key of the extracted mapping: a tag name, or the numeric id of an unnamed tag
NameKey(x) == [k |-> "str", s |-> x, n |-> 0]
IdKey(n) == [k |-> "int", s |-> "", n |-> n]

EmptyMap == <<>>

MakeId == 271
ISOId == 34855

\* PIL.ExifTags.TAGS, on the tags of the model
TAGS == (MakeId :> "Make") @@ (ISOId :> "ISOSpeedRatings")

\* the IFD that piexif.load files a tag under
IfdOf == (MakeId :> "0th") @@ (ISOId :> "Exif")

IfdNames == {"0th", "Exif", "GPS", "Interop", "1st"}

Jpeg(exif) == [kind |-> "jpeg", exif |-> exif]
Png == [kind |-> "png", exif |-> EmptyMap]
Junk == [kind |-> "junk", exif |-> EmptyMap]

ExifCanon == (MakeId :> StrV("Canon")) @@ (ISOId :> IntV(100))
ExifNikon == (MakeId :> StrV("Nikon"))

Exists(f, p) == p \in DOMAIN f

WriteFile(f, p, c) == (p :> c) @@ f

----------------------------------------------------------------------------
(* Library calls.  Each returns [ok, fs or value, cause]. *)

ENOENT == "No such file or directory"

\* shutil.copy2(src, dst)
Copy2(f, src, dst) ==
    IF Exists(f, src)
    THEN [ok |-> TRUE, fs |-> WriteFile(f, dst, f[src]), cause |-> ""]
    ELSE [ok |-> FALSE, fs |-> f, cause |-> ENOENT]

\* Image.open(path) and image._getexif(), keyed as extract keys its result
ExtractKey(id) == IF id \in DOMAIN TAGS THEN NameKey(TAGS[id]) ELSE IdKey(id)

PilExif(f, p) ==
    IF ~Exists(f, p) THEN [ok |-> FALSE, data |-> EmptyMap, cause |-> ENOENT]
    ELSE IF f[p].kind = "junk"
    THEN [ok |-> FALSE, data |-> EmptyMap, cause |-> "cannot identify image file"]
    ELSE IF f[p].kind = "png" THEN [ok |-> TRUE, data |-> EmptyMap, cause |-> ""]
    ELSE [ok |-> TRUE,
          data |-> [key \in {ExtractKey(id) : id \in DOMAIN f[p].exif} |->
                      LET id == CHOOSE x \in DOMAIN f[p].exif : ExtractKey(x) = key
                      IN f[p].exif[id]],
          cause |-> ""]

\* piexif.load(path): the tags grouped by IFD
PiexifLoad(f, p) ==
    IF ~Exists(f, p) THEN [ok |-> FALSE, dict |-> EmptyMap, cause |-> ENOENT]
    ELSE IF f[p].kind # "jpeg"
    THEN [ok |-> FALSE, dict |-> EmptyMap, cause |-> "Given data isn't JPEG."]
    ELSE [ok |-> TRUE,
          dict |-> [ifd \in IfdNames |->
                      [id \in {x \in DOMAIN f[p].exif : IfdOf[x] = ifd} |-> f[p].exif[id]]],
          cause |-> ""]

\* for key, value in exif_data.items(): update or set exif_dict[key]
MergeEdit(exif_dict, exif_data, has_data) ==
    IF ~has_data
    THEN [ok |-> FALSE, dict |-> exif_dict, cause |-> "'NoneType' object has no attribute 'items'"]
    ELSE IF \E key \in DOMAIN exif_data : key \in DOMAIN exif_dict
    THEN [ok |-> FALSE, dict |-> exif_dict, cause |-> "dictionary update sequence element"]
    ELSE [ok |-> TRUE, dict |-> exif_data @@ exif_dict, cause |-> ""]

\* piexif.dump(exif_dict): the IFDs named "0th", "Exif", "GPS", "Interop", "1st" are
\* encoded; any other key of the dictionary is not read
PiexifDump(exif_dict) ==
    LET ids == UNION {DOMAIN exif_dict[ifd] : ifd \in IfdNames \cap DOMAIN exif_dict}
    IN [id \in ids |->
          LET ifd == CHOOSE x \in IfdNames \cap DOMAIN exif_dict : id \in DOMAIN exif_dict[x]
          IN exif_dict[ifd][id]]

\* piexif.insert(exif_bytes, path)
PiexifInsert(f, exif, p) ==
    IF ~Exists(f, p) THEN [ok |-> FALSE, fs |-> f, cause |-> ENOENT]
    ELSE IF f[p].kind # "jpeg"
    THEN [ok |-> FALSE, fs |-> f, cause |-> "Given data isn't JPEG."]
    ELSE [ok |-> TRUE, fs |-> WriteFile(f, p, Jpeg(exif)), cause |-> ""]

\* faulty variant: piexif.remove opens the file for writing before it fails
PiexifRemoveTruncating(f, p) ==
    IF ~Exists(f, p) THEN [ok |-> FALSE, fs |-> f, cause |-> ENOENT]
    ELSE IF f[p].kind # "jpeg"
    THEN [ok |-> FALSE, fs |-> WriteFile(f, p, Junk),
          cause |-> "local variable 'file_type' referenced before assignment"]
    ELSE [ok |-> TRUE, fs |-> WriteFile(f, p, Jpeg(EmptyMap)), cause |-> ""]

\* piexif.remove(path)
PiexifRemove(f, p) ==
    IF ~Exists(f, p) THEN [ok |-> FALSE, fs |-> f, cause |-> ENOENT]
    ELSE IF f[p].kind # "jpeg"
    THEN [ok |-> FALSE, fs |-> f, cause |-> "local variable 'file_type' referenced before assignment"]
    ELSE [ok |-> TRUE, fs |-> WriteFile(f, p, Jpeg(EmptyMap)), cause |-> ""]

----------------------------------------------------------------------------
(* Messages *)

NoMsg == <<>>

\* raise Exception(f"Failed to <op> EXIF data: {e}")
Failed(op, cause) == <<"Failed to " \o op \o " EXIF data: ", cause>>

\* status = f"Error: {e}"
ErrorStatus(msg) == <<"Error: ">> \o msg

SuccessStatus == <<"Success">>

\* the "message" of the dictionary edit and delete return
EditedMessage == "EXIF data updated successfully"
DeletedMessage == "EXIF data deleted successfully"

----------------------------------------------------------------------------
(* Calls in progress.  A frame is one call of EXIFProcessor.extract / edit /  *)
(* delete or of BatchProcessor.run, with its local variables and position.    *)

NoResult == [data |-> EmptyMap, message |-> ""]

\* faulty variant: preserve_original is ignored and no backup is made
ProcStartNoBackup(op, preserve) ==
    IF op = "extract" THEN "open"
    ELSE IF op \notin {"edit", "delete"} THEN "callback"
    ELSE IF op = "edit" THEN "load" ELSE "remove"

\* where EXIFProcessor.<op>(preserve_original) begins
ProcStart(op, preserve) ==
    IF op = "extract" THEN "open"
    ELSE IF op \notin {"edit", "delete"} THEN "callback"
    ELSE IF preserve THEN "backup"
    ELSE IF op = "edit" THEN "load" ELSE "remove"

\* the first position of the loop body for file number i (0-based) of BatchProcessor.run
BatchBody(fr, i) ==
    IF i >= Len(fr.file_paths) THEN [fr EXCEPT !.i = i, !.pc = "returned"]
    ELSE IF fr.preserve_original
    THEN [fr EXCEPT !.i = i, !.status = SuccessStatus, !.pc = "bcopy"]
    ELSE [fr EXCEPT !.i = i, !.status = SuccessStatus,
                    !.path = fr.file_paths[i + 1],
                    !.pc = ProcStart(fr.operation, FALSE)]

Frame(func, path, exif_data, has_data, preserve, file_paths, operation) ==
    [func |-> func, path |-> path, exif_data |-> exif_data, has_data |-> has_data,
     preserve_original |-> preserve, file_paths |-> file_paths, operation |-> operation,
     i |-> 0, exif_bytes |-> EmptyMap, status |-> NoMsg,
     raised |-> FALSE, exc |-> NoMsg, result |-> NoResult,
     origin |-> "", after |-> 0, overlap |-> FALSE,
     pc |-> ProcStart(func, preserve)]

EXIFProcessor(func, image_path, exif_data, preserve) ==
    Frame(func, image_path, exif_data, TRUE, preserve, <<>>, "")

BatchProcessor(file_paths, operation, preserve, exif_data, has_data) ==
    BatchBody(Frame("batch", NoPath, exif_data, has_data, preserve, file_paths, operation), 0)

\* the EXIFProcessor method the frame is in
ProcOp(fr) == IF fr.func = "batch" THEN fr.operation ELSE fr.func

\* faulty variant: the batch loop's except clause leaves the status as it is
RaiseSwallowed(fr, msg) ==
    IF fr.func = "batch"
    THEN [fr EXCEPT !.pc = "callback"]
    ELSE [fr EXCEPT !.raised = TRUE, !.exc = msg, !.pc = "returned"]

\* an exception leaves the EXIFProcessor method: the single call raises it, the
\* batch loop's except clause turns it into the file's status
Raise(fr, msg) ==
    IF fr.func = "batch"
    THEN [fr EXCEPT !.status = ErrorStatus(msg), !.pc = "callback"]
    ELSE [fr EXCEPT !.raised = TRUE, !.exc = msg, !.pc = "returned"]

\* the EXIFProcessor method returns
Return(fr, result) ==
    IF fr.func = "batch"
    THEN [fr EXCEPT !.pc = "callback"]
    ELSE [fr EXCEPT !.result = result, !.pc = "returned"]

At(w, pc) == w \in 1..Len(workers) /\ workers[w].pc = pc

\* extract: Image.open, _getexif and the loop over its items
StepOpen(w) ==
    /\ At(w, "open")
    /\ LET fr == workers[w]
           r == PilExif(fs, fr.path)
       IN workers' = [workers EXCEPT ![w] =
              IF r.ok THEN Return(fr, [data |-> r.data, message |-> ""])
              ELSE Raise(fr, Failed("extract", r.cause))]
    /\ UNCHANGED <<fs, events, delivered, snap, win>>

\* edit, delete: shutil.copy2(self.image_path, backup_path)
StepBackup(w) ==
    /\ At(w, "backup")
    /\ LET fr == workers[w]
           r == Copy2(fs, fr.path, BackupPath(fr.path))
       IN /\ fs' = r.fs
          /\ workers' = [workers EXCEPT ![w] =
                 IF r.ok THEN [fr EXCEPT !.pc = ProcStart(ProcOp(fr), FALSE)]
                 ELSE Raise(fr, Failed(ProcOp(fr), r.cause))]
    /\ UNCHANGED <<events, delivered, snap, win>>

\* edit: piexif.load, the merge loop and piexif.dump
StepLoad(w) ==
    /\ At(w, "load")
    /\ LET fr == workers[w]
           r == PiexifLoad(fs, fr.path)
           m == MergeEdit(r.dict, fr.exif_data, fr.has_data)
       IN workers' = [workers EXCEPT ![w] =
              IF ~r.ok THEN Raise(fr, Failed("edit", r.cause))
              ELSE IF ~m.ok THEN Raise(fr, Failed("edit", m.cause))
              ELSE [fr EXCEPT !.exif_bytes = PiexifDump(m.dict), !.pc = "insert"]]
    /\ UNCHANGED <<fs, events, delivered, snap, win>>

\* edit: piexif.insert(exif_bytes, self.image_path) and the return
StepInsert(w) ==
    /\ At(w, "insert")
    /\ LET fr == workers[w]
           r == PiexifInsert(fs, fr.exif_bytes, fr.path)
       IN /\ fs' = r.fs
          /\ workers' = [workers EXCEPT ![w] =
                 IF r.ok THEN Return(fr, [data |-> EmptyMap, message |-> EditedMessage])
                 ELSE Raise(fr, Failed("edit", r.cause))]
    /\ UNCHANGED <<events, delivered, snap, win>>

\* delete: piexif.remove(self.image_path) and the return
StepRemove(w) ==
    /\ At(w, "remove")
    /\ LET fr == workers[w]
           r == PiexifRemove(fs, fr.path)
       IN /\ fs' = r.fs
          /\ workers' = [workers EXCEPT ![w] =
                 IF r.ok THEN Return(fr, [data |-> EmptyMap, message |-> DeletedMessage])
                 ELSE Raise(fr, Failed("delete", r.cause))]
    /\ UNCHANGED <<events, delivered, snap, win>>

\* BatchProcessor.run: shutil.copy2(file_path, new_path); working_path = str(new_path)
StepBatchCopy(w) ==
    /\ At(w, "bcopy")
    /\ LET fr == workers[w]
           file_path == fr.file_paths[fr.i + 1]
           new_path == ModifiedPath(file_path)
           r == Copy2(fs, file_path, new_path)
       IN /\ fs' = r.fs
          /\ workers' = [workers EXCEPT ![w] =
                 IF r.ok THEN [fr EXCEPT !.path = new_path,
                                         !.pc = ProcStart(fr.operation, FALSE)]
                 ELSE [fr EXCEPT !.status = ErrorStatus(<<r.cause>>), !.pc = "callback"]]
    /\ UNCHANGED <<events, delivered, snap, win>>

Signal(sig, w, data, msg, current, total, filename, status) ==
    [sig |-> sig, w |-> w, data |-> data, msg |-> msg, current |-> current,
     total |-> total, filename |-> filename, status |-> status]

\* faulty variant: progress_callback(i, ...), the 0-based index
StepCallbackZeroBased(w) ==
    /\ At(w, "callback")
    /\ LET fr == workers[w]
       IN /\ events' = Append(events,
                 Signal("progress", w, EmptyMap, NoMsg, fr.i, Len(fr.file_paths),
                        Basename(fr.file_paths[fr.i + 1]), fr.status))
          /\ workers' = [workers EXCEPT ![w] = BatchBody(fr, fr.i + 1)]
    /\ UNCHANGED <<fs, delivered, snap, win>>

\* BatchProcessor.run: progress_callback(i + 1, total_files, basename, status), then
\* the next iteration
StepCallback(w) ==
    /\ At(w, "callback")
    /\ LET fr == workers[w]
       IN /\ events' = Append(events,
                 Signal("progress", w, EmptyMap, NoMsg, fr.i + 1, Len(fr.file_paths),
                        Basename(fr.file_paths[fr.i + 1]), fr.status))
          /\ workers' = [workers EXCEPT ![w] = BatchBody(fr, fr.i + 1)]
    /\ UNCHANGED <<fs, delivered, snap, win>>

\* faulty variant: the except clause of Worker.run emits finished as well
StepEmitBoth(w) ==
    /\ At(w, "returned")
    /\ LET fr == workers[w]
           finished == Signal("finished", w, fr.result.data, <<fr.result.message>>, 0, 0, "", NoMsg)
       IN /\ events' = IF fr.raised
                       THEN events \o <<Signal("error", w, EmptyMap, fr.exc, 0, 0, "", NoMsg),
                                        finished>>
                       ELSE Append(events, finished)
          /\ workers' = [workers EXCEPT ![w].pc = "done"]
    /\ UNCHANGED <<fs, delivered, snap, win>>

\* Worker.run: self.finished.emit(result), or self.error.emit(str(e))
StepEmit(w) ==
    /\ At(w, "returned")
    /\ LET fr == workers[w]
       IN /\ events' = Append(events,
                 IF fr.raised
                 THEN Signal("error", w, EmptyMap, fr.exc, 0, 0, "", NoMsg)
                 ELSE Signal("finished", w, fr.result.data, <<fr.result.message>>, 0, 0, "", NoMsg))
          /\ workers' = [workers EXCEPT ![w].pc = "done"]
    /\ UNCHANGED <<fs, delivered, snap, win>>

----------------------------------------------------------------------------
(* MainWindow.__init__, SingleImageTab.__init__ and BatchProcessingTab.init_ui *)

WinInit ==
    [current_image_path |-> NoPath,      \* None
     worker |-> 0,                       \* None
     current_exif_data |-> EmptyMap,
     exif_table |-> EmptyMap,            \* row: tag text -> value text
     preserve_original_cb |-> TRUE,
     batch_file_list |-> <<>>,
     batch_preserve_original_cb |-> TRUE,
     batch_progress_bar |-> 0,
     batch_status_list |-> <<>>,
     dialogs |-> <<>>,                   \* the open modal dialogs, the topmost last
     shown |-> <<>>,                     \* history: every dialog opened so far
     table_from |-> 0,                   \* history: the Worker whose result fills the table
     edits |-> 0,                        \* history: cells the user has edited
     offered |-> <<>>]                   \* history: the paths given to add_files since the
                                         \* list was last cleared

----------------------------------------------------------------------------
(* Inputs *)

\* the file systems over the paths `paths` whose files hold contents of `contents`
FileSystems(paths, contents) == UNION {[S -> contents] : S \in SUBSET paths}

SeqsUpTo(S, n) == UNION {[1..k -> S] : k \in 0..n}

\* edited mappings as get_edited_data builds them: tag text -> value
EditedSets == {EmptyMap, ("Make" :> StrV("Nikon")), ("ISOSpeedRatings" :> IntV(200))}

----------------------------------------------------------------------------
(* BatchProcessor.run on its own: one call, on every list of up to MaxFiles   *)
(* paths, every operation and every file system over the batch paths.         *)

BatchPaths == {ImgA, ModifiedPath(ImgA), ImgB}

BatchContents == {Jpeg(ExifCanon), Jpeg(ExifNikon), Junk}

BatchInit ==
    /\ fs \in FileSystems(BatchPaths, BatchContents)
    /\ \E file_paths \in SeqsUpTo(BatchPaths, MaxFiles),
          operation \in {"delete", "edit", "rotate"},
          preserve \in BOOLEAN,
          has_data \in BOOLEAN :
          workers = <<BatchProcessor(file_paths, operation, preserve,
                                     ("Make" :> StrV("Nikon")), has_data)>>
    /\ events = <<>>
    /\ delivered = 0
    /\ snap = [init |-> fs, call |-> fs]
    /\ win = WinInit

BatchNext ==
    \/ StepBatchCopy(1)
    \/ StepLoad(1)
    \/ StepInsert(1)
    \/ StepRemove(1)
    \/ StepCallback(1)

BatchSpec == BatchInit /\ [][BatchNext]_vars

----------------------------------------------------------------------------
(* EXIFProcessor.edit and EXIFProcessor.delete on their own: up to MaxCalls   *)
(* calls on one image, one after the other.                                   *)

ProcPaths == {ImgA, BackupPath(ImgA), ImgB}

ProcContents == {Jpeg(ExifCanon), Jpeg(ExifNikon), Png}

ProcInit ==
    /\ fs \in FileSystems(ProcPaths, ProcContents)
    /\ workers = <<>>
    /\ events = <<>>
    /\ delivered = 0
    /\ snap = [init |-> fs, call |-> fs]
    /\ win = WinInit

Idle == IF workers = <<>> THEN TRUE ELSE workers[Len(workers)].pc = "returned"

CallEdit ==
    /\ Idle /\ Len(workers) < MaxCalls
    /\ \E exif_data \in EditedSets, preserve \in BOOLEAN :
          workers' = Append(workers, EXIFProcessor("edit", ImgA, exif_data, preserve))
    /\ snap' = [snap EXCEPT !.call = fs]
    /\ UNCHANGED <<fs, events, delivered, win>>

CallDelete ==
    /\ Idle /\ Len(workers) < MaxCalls
    /\ \E preserve \in BOOLEAN :
          workers' = Append(workers, EXIFProcessor("delete", ImgA, EmptyMap, preserve))
    /\ snap' = [snap EXCEPT !.call = fs]
    /\ UNCHANGED <<fs, events, delivered, win>>

ProcNext ==
    \/ CallEdit
    \/ CallDelete
    \/ \E w \in 1..Len(workers) : StepBackup(w)
    \/ \E w \in 1..Len(workers) : StepLoad(w)
    \/ \E w \in 1..Len(workers) : StepInsert(w)
    \/ \E w \in 1..Len(workers) : StepRemove(w)

ProcSpec == ProcInit /\ [][ProcNext]_vars

----------------------------------------------------------------------------
(* Properties of BatchProcessor.run (BatchSpec) *)

\* the file at p is the same in the file systems f and g
SameFile(f, g, p) == Exists(f, p) = Exists(g, p) /\ (Exists(f, p) => f[p] = g[p])

Run == workers[1]

\* C2: with preserve_original true, once BatchProcessor.run has returned, every file
\* on the input list has the content it had before the run.
C2_InputFilesUnchanged ==
    (Run.preserve_original /\ Run.operation = "delete" /\ Run.pc = "returned") =>
        \A k \in 1..Len(Run.file_paths) : SameFile(fs, snap.init, Run.file_paths[k])

\* C5: the callbacks made so far are exactly those of the files before the current
\* one, in list order, the k-th with current = k, total = N and the base name of the
\* k-th path; the file being processed is the i-th of the list (or its _modified
\* copy) and is not begun before the callback of its predecessor; after the run the
\* callback has been made N times.
C5_SequentialProgress ==
    LET N == Len(Run.file_paths) IN
    /\ Len(events) = Run.i
    /\ \A k \in 1..Len(events) :
          /\ events[k].sig = "progress"
          /\ events[k].current = k
          /\ events[k].total = N
          /\ events[k].filename = Basename(Run.file_paths[k])
    /\ Run.pc = "returned" => Len(events) = N
    /\ Run.pc \in {"load", "insert", "remove"} =>
          Run.path = IF Run.preserve_original
                     THEN ModifiedPath(Run.file_paths[Run.i + 1])
                     ELSE Run.file_paths[Run.i + 1]

C5_Witness ==
    /\ Run.pc = "returned" /\ Len(Run.file_paths) = 2 /\ Len(events) = 2
    /\ Run.file_paths[1] # Run.file_paths[2]
    /\ events[2].status = SuccessStatus

\* the operation of the run has taken effect on the current file
OperationDone ==
    LET file_path == Run.file_paths[Run.i + 1]
        working_path == IF Run.preserve_original THEN ModifiedPath(file_path) ELSE file_path
    IN /\ Run.preserve_original => Exists(fs, file_path)
       /\ Run.operation \in {"delete", "edit"} =>
             Exists(fs, working_path) /\ fs[working_path].kind = "jpeg"
       /\ Run.operation = "delete" => fs[working_path].exif = EmptyMap
       /\ Run.operation = "edit" => Run.has_data

Causes == {ENOENT, "Given data isn't JPEG.",
           "local variable 'file_type' referenced before assignment",
           "'NoneType' object has no attribute 'items'"}

\* C6: every reported status is "Success" or "Error: <message>" with the message of
\* the exception; a file is reported "Success" exactly when its copy and operation
\* went through, and "Error: ..." otherwise; after a failure the later files are
\* still processed, so that the finished run has reported every file.
C6_StatusPerFile ==
    /\ \A k \in 1..Len(events) :
          \/ events[k].status = SuccessStatus
          \/ /\ Len(events[k].status) >= 2
             /\ events[k].status[1] = "Error: "
             /\ events[k].status[Len(events[k].status)] \in Causes
    /\ Run.pc = "callback" => (Run.status = SuccessStatus <=> OperationDone)
    /\ Run.pc = "callback" => Len(events) + 1 <= Len(Run.file_paths)
    /\ Run.pc = "returned" => Len(events) = Len(Run.file_paths)

\* a failed first file is followed by a second file that is processed
C6_Witness ==
    /\ Run.pc = "returned" /\ Len(events) = 2
    /\ events[1].status # SuccessStatus
    /\ events[2].status = SuccessStatus

----------------------------------------------------------------------------
(* BatchProcessor.run called twice in a row: a delete with preserve_original  *)
(* on a list of up to MaxFiles paths, then the same call again.               *)

TwiceInit ==
    /\ fs \in FileSystems(BatchPaths, BatchContents)
    /\ \E file_paths \in SeqsUpTo(BatchPaths, MaxFiles) :
          workers = <<BatchProcessor(file_paths, "delete", TRUE, EmptyMap, FALSE)>>
    /\ events = <<>>
    /\ delivered = 0
    /\ snap = [init |-> fs, call |-> fs]
    /\ win = WinInit

\* the second call, when the first has returned
RunAgain ==
    /\ Len(workers) = 1
    /\ workers[1].pc = "returned"
    /\ workers' = Append(workers,
                         BatchProcessor(workers[1].file_paths, "delete", TRUE, EmptyMap, FALSE))
    /\ snap' = [snap EXCEPT !.call = fs]
    /\ UNCHANGED <<fs, events, delivered, win>>

TwiceNext ==
    \/ RunAgain
    \/ \E w \in 1..Len(workers) : StepBatchCopy(w)
    \/ \E w \in 1..Len(workers) : StepRemove(w)
    \/ \E w \in 1..Len(workers) : StepCallback(w)

TwiceSpec == TwiceInit /\ [][TwiceNext]_vars

\* C24: when the second of two runs of a batch delete with preserve_original on the
\* same list has returned, the file system is as the first run left it and the k-th
\* status of the second run is the k-th status of the first.
C24_BatchDeleteIdempotent ==
    (Len(workers) = 2 /\ workers[2].pc = "returned") =>
        LET N == Len(workers[1].file_paths) IN
        /\ fs = snap.call
        /\ Len(events) = 2 * N
        /\ \A k \in 1..N : events[N + k].status = events[k].status

----------------------------------------------------------------------------
(* Properties of EXIFProcessor.edit and delete (ProcSpec) *)

Call == workers[Len(workers)]

\* C3: during and after a call of edit or delete, the .backup file holds the content
\* the image had when the call began as soon as the copy step is over, and exactly
\* when preserve_original is true: the image is not modified before that; without
\* preserve_original the .backup file is neither created nor changed; only
\* image_path itself is modified, and a successful delete leaves it without EXIF, a
\* successful edit with the re-encoded EXIF.
C3_BackupThenInPlace ==
    workers # <<>> =>
        LET img == Call.path
            bak == BackupPath(img)
            before == snap.call
            backedUp == Exists(before, img) /\ Exists(fs, bak) /\ fs[bak] = before[img]
            succeeded == Call.pc = "returned" /\ ~Call.raised
        IN /\ Call.preserve_original =>
                 \/ Call.pc = "backup" /\ fs = before
                 \/ Call.raised /\ ~Exists(before, img) /\ fs = before
                 \/ backedUp
           /\ (Call.preserve_original /\ ~SameFile(fs, before, img)) => backedUp
           /\ ~Call.preserve_original => SameFile(fs, before, bak)
           /\ \A p \in (DOMAIN fs \cup DOMAIN before) \ {img, bak} : SameFile(fs, before, p)
           /\ (succeeded /\ Call.func = "delete") => fs[img] = Jpeg(EmptyMap)
           /\ (succeeded /\ Call.func = "edit") => fs[img] = Jpeg(Call.exif_bytes)
           /\ Call.raised => SameFile(fs, before, img)

\* a delete with preserve_original has stripped the image and left the backup
C3_Witness ==
    /\ workers # <<>>
    /\ Call.func = "delete" /\ Call.preserve_original
    /\ Call.pc = "returned" /\ ~Call.raised
    /\ fs[ImgA] # snap.call[ImgA]
    /\ fs[BackupPath(ImgA)] = snap.call[ImgA]
    /\ Exists(snap.call, BackupPath(ImgA)) /\ snap.call[BackupPath(ImgA)] # snap.call[ImgA]

\* C4: with preserve_original true, after any sequence of successful edit and delete
\* calls on the image, the .backup file holds the content the image had before the
\* first of them.
C4_BackupHoldsOriginal ==
    (/\ workers # <<>>
     /\ \A w \in 1..Len(workers) :
           workers[w].preserve_original /\ workers[w].pc = "returned" /\ ~workers[w].raised)
    => /\ Exists(fs, BackupPath(ImgA))
       /\ fs[BackupPath(ImgA)] = snap.init[ImgA]

\* C23: when edit or delete has raised, the image has the content it had before the
\* call, no file other than the .backup copy was written, and without
\* preserve_original no file at all.
C23_FailedCallLeavesImage ==
    (workers # <<>> /\ Call.pc = "returned" /\ Call.raised) =>
        /\ SameFile(fs, snap.call, Call.path)
        /\ \A p \in (DOMAIN fs \cup DOMAIN snap.call) \ {BackupPath(Call.path)} :
              SameFile(fs, snap.call, p)
        /\ ~Call.preserve_original => fs = snap.call

\* a delete with preserve_original has raised after it wrote the .backup copy
C23_Witness ==
    /\ workers # <<>>
    /\ Call.func = "delete" /\ Call.preserve_original
    /\ Call.pc = "returned" /\ Call.raised
    /\ ~SameFile(fs, snap.call, BackupPath(Call.path))
    /\ Exists(fs, Call.path)

----------------------------------------------------------------------------
(* SingleImageTab: the table and its conversions *)

Digit == <<"0", "1", "2", "3", "4", "5", "6", "7", "8", "9">>

\* str(n) of an int
RECURSIVE Dec(_)
Dec(n) ==
    IF n < 0 THEN "-" \o Dec(-n)
    ELSE IF n < 10 THEN Digit[n + 1]
    ELSE Dec(n \div 10) \o Digit[(n % 10) + 1]

\* the ints whose literals a cell of the model can hold
KnownInts == {5, 100, 200}

\* int(value_str): surrounding blanks and leading zeros are accepted; anything that
\* is no integer literal raises ValueError
ParseInt(text) ==
    IF \E n \in KnownInts : text \in {Dec(n), " " \o Dec(n), "0" \o Dec(n)}
    THEN [ok |-> TRUE,
          n |-> CHOOSE n \in KnownInts : text \in {Dec(n), " " \o Dec(n), "0" \o Dec(n)}]
    ELSE [ok |-> FALSE, n |-> 0]

\* str(tag)
TagText(key) == IF key.k = "str" THEN key.s ELSE Dec(key.n)

\* _exif_value_to_str(value)
ExifValueToStr(v) == IF v.t = "int" THEN Dec(v.i) ELSE v.s

\* populate_exif_table(exif_data): one row per tag
PopulateExifTable(w, exif_data, from) ==
    [w EXCEPT !.current_exif_data = exif_data,
              !.exif_table = [text \in {TagText(key) : key \in DOMAIN exif_data} |->
                                LET key == CHOOSE x \in DOMAIN exif_data : TagText(x) = text
                                IN ExifValueToStr(exif_data[key])],
              !.table_from = from]

\* float(value_str), on the literals of the model: the float, or ValueError
ParseFloat(text) ==
    IF text \in {"2.8", " 2.8"} THEN [ok |-> TRUE, v |-> FloatV("2.8")]
    ELSE IF text \in {"5", "5.0"} THEN [ok |-> TRUE, v |-> FloatV("5.0")]
    ELSE [ok |-> FALSE, v |-> FloatV("")]

\* json.loads(value_str), on the texts of the model: the decoded value (an object,
\* a number, an array), or JSONDecodeError
JsonLoads(text) ==
    IF text = "{}" THEN [ok |-> TRUE, v |-> DictV("{}")]
    ELSE IF text = "5" THEN [ok |-> TRUE, v |-> IntV(5)]
    ELSE IF text = "2.8" THEN [ok |-> TRUE, v |-> FloatV("2.8")]
    ELSE IF text = "[]" THEN [ok |-> TRUE, v |-> [t |-> "list", i |-> 0, s |-> "[]"]]
    ELSE [ok |-> FALSE, v |-> StrV("")]

\* get_edited_data(): each row's text converted back to the type of
\* current_exif_data.get(tag), or kept as text
GetEditedData(w) ==
    [tag \in DOMAIN w.exif_table |->
        LET value_str == w.exif_table[tag]
            known == NameKey(tag) \in DOMAIN w.current_exif_data
            type == IF known THEN w.current_exif_data[NameKey(tag)].t ELSE "NoneType"
        IN IF type = "int" /\ ParseInt(value_str).ok THEN IntV(ParseInt(value_str).n)
           ELSE IF type = "float" /\ ParseFloat(value_str).ok THEN ParseFloat(value_str).v
           ELSE IF type = "dict" /\ JsonLoads(value_str).ok THEN JsonLoads(value_str).v
           ELSE StrV(value_str)]

----------------------------------------------------------------------------
(* MainWindow: the slots.  A modal dialog runs the event loop: while it is open *)
(* the user can only answer it, and queued signals are still delivered.         *)

Dialog(kind, w, msg) == [kind |-> kind, w |-> w, msg |-> msg]

\* only the boxes that report a Worker's signal are kept in the history
OpenDialog(w, d) ==
    [w EXCEPT !.dialogs = Append(@, d),
              !.shown = IF d.w = 0 THEN @ ELSE Append(@, d)]

CloseTop(w) == [w EXCEPT !.dialogs = SubSeq(@, 1, Len(@) - 1)]

Top == win.dialogs[Len(win.dialogs)]

CanClick == win.dialogs = <<>>

\* self.worker = Worker(func, ...); connect; self.worker.start()
StartWorker(w, fr, origin, after) ==
    /\ Len(workers) < MaxWorkers
    /\ workers' = Append(workers,
          [fr EXCEPT !.origin = origin, !.after = after,
                     !.overlap = \/ \E v \in 1..Len(workers) : workers[v].pc # "done"
                                 \/ delivered < Len(events)])
    /\ win' = [w EXCEPT !.worker = Len(workers) + 1]

\* extract_exif(), on the window fields w
ExtractExif(w, origin, after) ==
    IF w.current_image_path = NoPath
    THEN /\ win' = OpenDialog(w, Dialog("warning", 0, <<"Please select an image first.">>))
         /\ UNCHANGED workers
    ELSE StartWorker(w, EXIFProcessor("extract", w.current_image_path, EmptyMap, FALSE),
                     origin, after)

\* the files the user can pick in the file dialog
Selectable == {ImgA, ImgB}

open_single_image ==
    /\ CanClick
    /\ \E file_path \in Selectable \cap DOMAIN fs :
          ExtractExif([win EXCEPT !.current_image_path = file_path], "select", 0)
    /\ UNCHANGED <<fs, events, delivered, snap>>

extract_exif ==
    /\ CanClick
    /\ ExtractExif(win, "button", 0)
    /\ UNCHANGED <<fs, events, delivered, snap>>

\* save_exif_changes / delete_all_exif, up to the confirmation dialog
AskConfirm(kind, question) ==
    /\ CanClick
    /\ win' = IF win.current_image_path = NoPath
              THEN OpenDialog(win, Dialog("warning", 0, <<"No image selected.">>))
              ELSE OpenDialog(win, Dialog(kind, 0, <<question>>))
    /\ UNCHANGED <<fs, workers, events, delivered, snap>>

save_exif_changes == AskConfirm("confirm_save", "Are you sure you want to save these changes?")

delete_all_exif ==
    AskConfirm("confirm_delete", "This will permanently remove all EXIF data. Continue?")

\* the user answers No
AnswerNo ==
    /\ win.dialogs # <<>>
    /\ Top.kind \in {"confirm_save", "confirm_delete", "confirm_batch"}
    /\ win' = CloseTop(win)
    /\ UNCHANGED <<fs, workers, events, delivered, snap>>

\* save_exif_changes after Yes
SaveAnswerYes ==
    /\ win.dialogs # <<>>
    /\ Top.kind = "confirm_save"
    /\ StartWorker(CloseTop(win),
                   EXIFProcessor("edit", win.current_image_path, GetEditedData(win),
                                 win.preserve_original_cb),
                   "save", 0)
    /\ UNCHANGED <<fs, events, delivered, snap>>

\* delete_all_exif after Yes
DeleteAnswerYes ==
    /\ win.dialogs # <<>>
    /\ Top.kind = "confirm_delete"
    /\ StartWorker(CloseTop(win),
                   EXIFProcessor("delete", win.current_image_path, EmptyMap,
                                 win.preserve_original_cb),
                   "delete", 0)
    /\ UNCHANGED <<fs, events, delivered, snap>>

\* the user closes a warning or error box, or the "Batch Complete" box
CloseMessage ==
    /\ win.dialogs # <<>>
    /\ Top.kind \in {"warning", "error", "information"}
    /\ win' = CloseTop(win)
    /\ UNCHANGED <<fs, workers, events, delivered, snap>>

\* on_operation_finished after the Success box is closed: self.extract_exif()
CloseSuccess ==
    /\ win.dialogs # <<>>
    /\ Top.kind = "success"
    /\ ExtractExif(CloseTop(win), "refresh", Top.w)
    /\ UNCHANGED <<fs, events, delivered, snap>>

\* int((current / total) * 100): the float product truncates to the exact quotient
\* for every total below 50 (29 of 50 is the first pair that gives one less, 57)
Percent(current, total) == (current * 100) \div total

\* on_batch_progress(current, total, filename, status)
on_batch_progress(w, current, total, filename, status) ==
    [w EXCEPT !.batch_progress_bar = Percent(current, total),
              !.batch_status_list =
                    Append(@, <<"(", Dec(current), "/", Dec(total), ") ", filename, ": ">>
                              \o status)]

\* faulty variant: on_processor_error runs the extraction again
DeliverRetry ==
    /\ delivered < Len(events)
    /\ delivered' = delivered + 1
    /\ IF events[delivered + 1].sig = "error"
       THEN ExtractExif(win, "retry", 0)
       ELSE UNCHANGED <<workers, win>>
    /\ UNCHANGED <<fs, events, snap>>

\* faulty variant: on_processor_error empties the table
DeliverClearOnError ==
    /\ delivered < Len(events)
    /\ delivered' = delivered + 1
    /\ LET e == events[delivered + 1]
       IN win' = IF e.sig = "error"
                 THEN [OpenDialog(win, Dialog("error", e.w, e.msg))
                          EXCEPT !.exif_table = EmptyMap, !.current_exif_data = EmptyMap]
                 ELSE IF workers[e.w].func = "extract"
                 THEN PopulateExifTable(win, e.data, e.w)
                 ELSE OpenDialog(win, Dialog("success", e.w, e.msg))
    /\ UNCHANGED <<fs, workers, events, snap>>

\* the event loop delivers the next queued signal to the slot connected to it
Deliver ==
    /\ delivered < Len(events)
    /\ delivered' = delivered + 1
    /\ LET e == events[delivered + 1]
           func == workers[e.w].func
       IN win' =
            IF e.sig = "error"
            THEN \* on_processor_error
                 OpenDialog(win, Dialog("error", e.w, e.msg))
            ELSE IF e.sig = "progress"
            THEN on_batch_progress(win, e.current, e.total, e.filename, e.status)
            ELSE IF func = "batch"
            THEN \* on_batch_finished
                 OpenDialog(win, Dialog("information", e.w,
                                        <<"The batch operation has finished.">>))
            ELSE IF func = "extract"
            THEN \* on_exif_extracted
                 PopulateExifTable(win, e.data, e.w)
            ELSE \* on_operation_finished, up to the Success box
                 OpenDialog(win, Dialog("success", e.w, e.msg))
    /\ UNCHANGED <<fs, workers, events, snap>>

\* the texts the user types into a value cell
Texts == {"Nikon", "200"}

EditCell ==
    /\ CanClick
    /\ win.edits < MaxEdits
    /\ \E tag \in DOMAIN win.exif_table, text \in Texts :
          /\ text # win.exif_table[tag]
          /\ win' = [win EXCEPT !.exif_table[tag] = text, !.edits = @ + 1]
    /\ UNCHANGED <<fs, workers, events, delivered, snap>>

TogglePreserve ==
    /\ CanClick
    /\ win' = [win EXCEPT !.preserve_original_cb = ~@]
    /\ UNCHANGED <<fs, workers, events, delivered, snap>>

Init ==
    /\ fs \in {(ImgA :> Jpeg(ExifCanon)) @@ (ImgB :> c) : c \in {Junk, Jpeg(ExifNikon)}}
    /\ workers = <<>>
    /\ events = <<>>
    /\ delivered = 0
    /\ snap = [init |-> fs, call |-> fs]
    /\ win = WinInit

WorkerStep(w) ==
    \/ StepOpen(w)
    \/ StepBackup(w)
    \/ StepLoad(w)
    \/ StepInsert(w)
    \/ StepRemove(w)
    \/ StepEmit(w)

Next ==
    \/ open_single_image
    \/ extract_exif
    \/ save_exif_changes
    \/ delete_all_exif
    \/ AnswerNo
    \/ SaveAnswerYes
    \/ DeleteAnswerYes
    \/ CloseMessage
    \/ CloseSuccess
    \/ Deliver
    \/ EditCell
    \/ TogglePreserve
    \/ \E w \in 1..Len(workers) : WorkerStep(w)

Spec == Init /\ [][Next]_vars

----------------------------------------------------------------------------
(* Properties of MainWindow and Worker (Spec) *)

Started == 1..Len(workers)

Running == {w \in Started : workers[w].pc # "done"}

\* C1: at most one Worker is running at any time: no Worker is started while an
\* earlier one has not yet emitted finished or error.
C1_OneWorkerAtATime == Cardinality(Running) <= 1

\* the finished and error signals Worker w has emitted
Emitted(w) == {k \in 1..Len(events) : events[k].w = w /\ events[k].sig \in {"finished", "error"}}

\* the boxes of the given kind opened for a signal of Worker w
Boxes(kind, w) == {k \in 1..Len(win.shown) : win.shown[k].kind = kind /\ win.shown[k].w = w}

ExtractCauses == {ENOENT, "cannot identify image file"}

\* C7: a Worker emits nothing while its call runs and exactly one signal when it
\* ends, and it can always take its next step; the signal is error exactly when the
\* call raised, and then carries "Failed to <op> EXIF data: <cause>" with the cause
\* the library gave; once delivered, the error has opened exactly one error box,
\* with that message, and no finished slot has run for the Worker.
C7_OneSignalPerWorker ==
    \A w \in Started :
        LET fr == workers[w] IN
        /\ Cardinality(Emitted(w)) = IF fr.pc = "done" THEN 1 ELSE 0
        /\ fr.pc # "done" =>
              ENABLED (StepOpen(w) \/ StepBackup(w) \/ StepLoad(w) \/ StepInsert(w)
                         \/ StepRemove(w) \/ StepEmit(w))
        /\ \A k \in Emitted(w) :
              /\ (events[k].sig = "error") = fr.raised
              /\ fr.raised =>
                    /\ events[k].msg = fr.exc
                    /\ Len(events[k].msg) = 2
                    /\ events[k].msg[1] = "Failed to " \o fr.func \o " EXIF data: "
                    /\ events[k].msg[2] \in Causes \cup ExtractCauses
              /\ Cardinality(Boxes("error", w)) = IF fr.raised /\ k <= delivered THEN 1 ELSE 0
        /\ Emitted(w) = {} => Boxes("error", w) = {}
        /\ \A k \in Boxes("error", w) : win.shown[k].msg = fr.exc
        /\ fr.raised => Boxes("success", w) = {} /\ win.table_from # w

\* a failed edit has been reported in an error box
C7_Witness ==
    \E w \in Started :
        /\ workers[w].func = "edit" /\ workers[w].raised /\ workers[w].pc = "done"
        /\ Cardinality(Boxes("error", w)) = 1

Quiescent == Running = {} /\ delivered = Len(events) /\ win.dialogs = <<>>

\* every Worker was started when no other was running or had a signal pending
OneAtATime == \A w \in Started : ~workers[w].overlap

\* C8: once nothing is in progress any more (and no two Workers ever ran at the same
\* time), the table holds no data of an image other than the selected one, also when
\* the extraction for the selected image failed.
C8_TableOfSelectedImage ==
    (Quiescent /\ OneAtATime /\ win.table_from # 0) =>
        \/ workers[win.table_from].path = win.current_image_path
        \/ win.exif_table = EmptyMap

\* C9: when an edit has succeeded (nothing but extractions and that edit ever ran,
\* one at a time), the refresh extraction that follows it on the same image returns,
\* for every tag of the mapping the edit was given, the value of that mapping.
C9_EditRoundTrip ==
    \A s \in Started, e \in Started :
        (/\ \A w \in Started : workers[w].func = "extract" \/ w = s
         /\ OneAtATime
         /\ workers[s].func = "edit"
         /\ workers[e].origin = "refresh" /\ workers[e].after = s
         /\ workers[e].path = workers[s].path
         /\ workers[e].pc \in {"returned", "done"} /\ ~workers[e].raised)
        => \A tag \in DOMAIN workers[s].exif_data :
              /\ NameKey(tag) \in DOMAIN workers[e].result.data
              /\ workers[e].result.data[NameKey(tag)] = workers[s].exif_data[tag]

\* the rows populate_exif_table makes of the image at path p
TableOfFile(p) == PopulateExifTable(win, PilExif(fs, p).data, 0).exif_table

\* the refresh extractions started after the signal of Worker s
Refreshes(s) == {e \in Started : workers[e].origin = "refresh" /\ workers[e].after = s}

\* C10: every successful save or delete whose Success box has been closed is
\* followed by exactly one refresh extraction, of the image then selected; and once
\* that extraction has succeeded and nothing is in progress any more, the table (if
\* the user has not edited it) shows what is stored in the selected file.
C10_RefreshShowsFile ==
    /\ \A s \in Started :
          /\ Cardinality(Refreshes(s)) =
                IF Boxes("success", s) # {} /\ \A j \in 1..Len(win.dialogs) : win.dialogs[j].w # s
                THEN 1 ELSE 0
          /\ Refreshes(s) # {} => workers[s].func \in {"edit", "delete"} /\ ~workers[s].raised
    /\ (/\ Quiescent
        /\ workers # <<>>
        /\ workers[Len(workers)].origin = "refresh"
        /\ ~workers[Len(workers)].raised
        /\ win.edits = 0)
       => /\ workers[Len(workers)].path = win.current_image_path
          /\ win.exif_table = TableOfFile(win.current_image_path)

----------------------------------------------------------------------------
(* BatchProcessingTab: the file list.  An item is the full path it stores as   *)
(* its data; its text is the path's base name.                                *)

\* faulty variant: every path is added, whether or not the list has it
RECURSIVE AddAll(_, _)
AddAll(list, file_paths) ==
    IF file_paths = <<>> THEN list
    ELSE AddAll(Append(list, Head(file_paths)), Tail(file_paths))

\* the for loop of add_files: a path is added unless an item has its base name
RECURSIVE AddFiles(_, _)
AddFiles(list, file_paths) ==
    IF file_paths = <<>> THEN list
    ELSE LET path == Head(file_paths)
             found == \E k \in 1..Len(list) : Basename(list[k]) = Basename(path)
         IN AddFiles(IF found THEN list ELSE Append(list, path), Tail(file_paths))

add_files(w, file_paths) ==
    [w EXCEPT !.batch_file_list = AddFiles(@, file_paths),
              !.offered = @ \o file_paths]

get_file_list(w) == w.batch_file_list

reset_progress(w) == [w EXCEPT !.batch_progress_bar = 0, !.batch_status_list = <<>>]

\* the files the user can pick in the batch file dialog
ImgA2 == [parent |-> "e", stem |-> "a", suffix |-> ".jpg"]

BatchSelectable == {ImgA, ImgB, ImgA2}

\* open_batch_images: the dialog returns one or more paths (none: nothing happens)
open_batch_images ==
    /\ CanClick
    /\ \E file_paths \in SeqsUpTo(BatchSelectable, MaxFiles) :
          /\ file_paths # <<>>
          /\ win' = add_files(win, file_paths)
    /\ UNCHANGED <<fs, workers, events, delivered, snap>>

clear_file_list ==
    /\ CanClick
    /\ win' = [win EXCEPT !.batch_file_list = <<>>, !.offered = <<>>]
    /\ UNCHANGED <<fs, workers, events, delivered, snap>>

----------------------------------------------------------------------------
(* The file list on its own: add_files and clear_file_list, up to MaxAdds      *)
(* paths between two clears.                                                  *)

MaxAdds == 4

ListNext ==
    \/ Len(win.offered) + MaxFiles <= MaxAdds /\ open_batch_images
    \/ clear_file_list

ListSpec == Init /\ [][ListNext]_vars

\* the position at which x first occurs in seq
FirstAt(seq, x) == CHOOSE k \in 1..Len(seq) : seq[k] = x /\ \A j \in 1..(k - 1) : seq[j] # x

\* C16: after any sequence of add_files and clear_file_list calls, get_file_list holds
\* no path more than once, every path of it was given to add_files since the last
\* clear, and the paths stand in the order in which they were first given.
C16_NoDuplicateInOrder ==
    LET list == get_file_list(win)
        InOffered(x) == \E k \in 1..Len(win.offered) : win.offered[k] = x
    IN /\ \A i, j \in 1..Len(list) : i # j => list[i] # list[j]
       /\ \A i \in 1..Len(list) : InOffered(list[i])
       /\ \A i, j \in 1..Len(list) :
             i < j => FirstAt(win.offered, list[i]) < FirstAt(win.offered, list[j])

\* a path given twice, and a second path, are in the list once each
C16_Witness ==
    /\ Len(get_file_list(win)) = 2
    /\ \E i, j \in 1..Len(win.offered) : i < j /\ win.offered[i] = win.offered[j]

\* C25: get_file_list holds every path that was given to add_files since the list
\* was last cleared, also when two of them have the same base name in different
\* directories.
C25_EveryPathKept ==
    \A k \in 1..Len(win.offered) :
        \E i \in 1..Len(get_file_list(win)) : get_file_list(win)[i] = win.offered[k]

----------------------------------------------------------------------------
(* MainWindow: the batch slots, and the whole window (both tabs) with at most  *)
(* MaxRuns Workers started by the user's clicks and answers, and a batch list *)
(* that is filled once (ListSpec has the list's other uses).                  *)

MaxRuns == 2

\* the number of Workers a click or an answer has started (the others are the
\* refresh extractions)
ByUser(ws) == Cardinality({w \in 1..Len(ws) : ws[w].origin # "refresh"})

\* the items of operation_combo
operation_combo == {"Delete All EXIF Data"}

\* "Delete" in operation_text
HasDelete(operation_text) == operation_text \in {"Delete All EXIF Data"}

ConfirmBatch(operation, n) ==
    <<"This will perform '", operation, "' on ", Dec(n), " images. Continue?">>

\* faulty variant: the job is started without the question
process_batch_images_unasked ==
    /\ CanClick
    /\ get_file_list(win) # <<>>
    /\ StartWorker(reset_progress(win),
                   BatchProcessor(get_file_list(win), "delete",
                                  win.batch_preserve_original_cb, EmptyMap, FALSE),
                   "batch", 0)
    /\ UNCHANGED <<fs, events, delivered, snap>>

\* process_batch_images, up to the confirmation dialog
process_batch_images ==
    /\ CanClick
    /\ \E operation_text \in operation_combo :
          win' = IF get_file_list(win) = <<>>
                 THEN OpenDialog(win, Dialog("warning", 0, <<"No images in the batch list.">>))
                 ELSE IF ~HasDelete(operation_text)
                 THEN OpenDialog(win, Dialog("warning", 0,
                                             <<"Selected operation is not yet implemented.">>))
                 ELSE OpenDialog(win, Dialog("confirm_batch", 0,
                                             ConfirmBatch("delete", Len(get_file_list(win)))))
    /\ UNCHANGED <<fs, workers, events, delivered, snap>>

\* process_batch_images after Yes (the list cannot change while the question is open)
BatchAnswerYes ==
    /\ win.dialogs # <<>>
    /\ Top.kind = "confirm_batch"
    /\ StartWorker(reset_progress(CloseTop(win)),
                   BatchProcessor(get_file_list(win), "delete",
                                  win.batch_preserve_original_cb, EmptyMap, FALSE),
                   "batch", 0)
    /\ UNCHANGED <<fs, events, delivered, snap>>

ToggleBatchPreserve ==
    /\ CanClick
    /\ win' = [win EXCEPT !.batch_preserve_original_cb = ~@]
    /\ UNCHANGED <<fs, workers, events, delivered, snap>>

\* Worker.run, for every function a Worker is given
AppWorkerStep(w) ==
    \/ WorkerStep(w)
    \/ StepBatchCopy(w)
    \/ StepCallback(w)

AppNext ==
    /\ \/ Next
       \/ win.offered = <<>> /\ open_batch_images
       \/ process_batch_images
       \/ BatchAnswerYes
       \/ ToggleBatchPreserve
       \/ \E w \in 1..Len(workers) : StepBatchCopy(w)
       \/ \E w \in 1..Len(workers) : StepCallback(w)
    /\ ByUser(workers') <= MaxRuns

AppSpec == Init /\ [][AppNext]_vars

\* the whole window with its checkboxes and table cells left as they are
ClickNext ==
    /\ \/ open_single_image
       \/ extract_exif
       \/ save_exif_changes
       \/ delete_all_exif
       \/ AnswerNo
       \/ SaveAnswerYes
       \/ DeleteAnswerYes
       \/ CloseMessage
       \/ CloseSuccess
       \/ Deliver
       \/ win.offered = <<>> /\ open_batch_images
       \/ process_batch_images
       \/ BatchAnswerYes
       \/ \E w \in 1..Len(workers) : AppWorkerStep(w)
    /\ ByUser(workers') <= MaxRuns

\* each Worker thread is scheduled again and again until its run() has ended
AppLive ==
    Init /\ [][ClickNext]_vars /\ \A w \in 1..MaxWorkers : WF_vars(AppWorkerStep(w))

----------------------------------------------------------------------------
(* Properties of the whole window (AppSpec, AppLive) *)

\* how far a call has come: the files done, then the position within the file
Rank ==
    [open |-> 0, backup |-> 0, bcopy |-> 0, load |-> 1, remove |-> 1, insert |-> 2,
     callback |-> 3, returned |-> 4, done |-> 5]

Measure(fr) == (fr.i * 6) + Rank[fr.pc]

ConfirmKinds == {"confirm_save", "confirm_delete", "confirm_batch"}

\* the Workers are those of before, each unchanged or further on in its call, and
\* at most one new one
WorkersAdvance ==
    /\ Len(workers') \in {Len(workers), Len(workers) + 1}
    /\ \A w \in 1..Len(workers) :
          workers'[w] # workers[w] => Measure(workers'[w]) > Measure(workers[w])

\* a Worker is started only by a click, by the answer to a question or by closing
\* the Success box, never by a signal, by a Worker or by closing an error box
StartedByUser ==
    Len(workers') > Len(workers) =>
        /\ events' = events /\ delivered' = delivered
        /\ \/ win.dialogs = <<>>
           \/ win.dialogs # <<>> /\ Top.kind \in ConfirmKinds \cup {"success"}
        /\ workers'[Len(workers')].origin = "refresh" <=>
              (win.dialogs # <<>> /\ Top.kind = "success")

\* the chain of a user action: a refresh extraction follows a successful edit or
\* delete that the user started, one refresh at most, and nothing follows a refresh,
\* an extraction, a batch run or a failure
ChainsOfTwo ==
    \A e \in Started :
        IF workers[e].origin = "refresh"
        THEN LET s == workers[e].after IN
             /\ s \in 1..(e - 1)
             /\ workers[e].func = "extract"
             /\ workers[s].func \in {"edit", "delete"}
             /\ workers[s].origin \in {"save", "delete"}
             /\ workers[s].pc = "done" /\ ~workers[s].raised
             /\ Refreshes(s) = {e}
        ELSE workers[e].after = 0

\* C11: no operation is run twice and nothing is retried: every call only moves
\* forward through its library calls, once each (the batch run through one file
\* after the other); Workers are started by user actions only, the refresh extraction
\* after a successful edit or delete being the only Worker that follows another; and
\* every Worker that was started ends, after which it runs no more.
C11_NothingRetried ==
    /\ [][WorkersAdvance /\ StartedByUser]_vars
    /\ []ChainsOfTwo
    /\ \A w \in 1..MaxWorkers :
          (Len(workers) >= w) ~> [](Len(workers) >= w /\ workers[w].pc = "done")

\* a successful delete has had its refresh extraction, and nothing runs any more
C11_Witness ==
    /\ Quiescent
    /\ \E s, e \in Started :
          /\ workers[s].func = "delete" /\ ~workers[s].raised
          /\ workers[e].origin = "refresh" /\ workers[e].after = s

\* a Worker that modifies files is started only by the Yes to its question, for the
\* selected image or the listed files
StartedOnYes ==
    Len(workers') > Len(workers) =>
        LET new == workers'[Len(workers')] IN
        /\ new.func \in {"edit", "delete"} =>
              /\ win.dialogs # <<>>
              /\ Top.kind = (IF new.func = "edit" THEN "confirm_save" ELSE "confirm_delete")
              /\ win.current_image_path # NoPath
              /\ new.path = win.current_image_path
        /\ new.func = "batch" =>
              /\ win.dialogs # <<>>
              /\ Top.kind = "confirm_batch"
              /\ get_file_list(win) # <<>>
              /\ new.file_paths = get_file_list(win)
              /\ new.operation = "delete"
        /\ new.func \in {"edit", "delete", "batch"} =>
              win'.dialogs = SubSeq(win.dialogs, 1, Len(win.dialogs) - 1)

\* a question is asked only with an image selected, or with files in the list
AskedWhenSet ==
    (Len(win'.dialogs) > Len(win.dialogs)) =>
        LET d == win'.dialogs[Len(win'.dialogs)] IN
        /\ d.kind \in {"confirm_save", "confirm_delete"} => win.current_image_path # NoPath
        /\ d.kind = "confirm_batch" => get_file_list(win) # <<>>

\* files change only in the steps of an edit, delete or batch Worker
TouchedByWorker ==
    fs' # fs => \E w \in 1..Len(workers) :
                   /\ workers[w].func \in {"edit", "delete", "batch"}
                   /\ workers'[w] # workers[w]

\* C15: an edit or delete Worker is started only when an image is selected and the
\* user answers Yes to the question, a batch Worker only when the list is not empty,
\* the operation is delete and the user answers Yes; no other step (a No, a click
\* without image or with an empty list) starts such a Worker or changes a file.
C15_ConfirmedOnly == [][StartedOnYes /\ AskedWhenSet /\ TouchedByWorker]_vars

\* a confirmed batch run has stripped a file
C15_Witness ==
    /\ \E w \in Started : workers[w].func = "batch" /\ workers[w].pc = "done"
    /\ fs # snap.init

\* the places in the signal queue of Worker w's signals of one kind
SignalsOf(w, sig) == {k \in 1..Len(events) : events[k].w = w /\ events[k].sig = sig}

BatchRuns == {w \in Started : workers[w].func = "batch"}

\* the signals of one batch run, as far as they have been emitted
RunInOrder(w) ==
    LET N == Len(workers[w].file_paths)
        value(k) == Percent(events[k].current, events[k].total)
    IN /\ \A k, l \in SignalsOf(w, "progress") : k < l => value(k) <= value(l)
       /\ \A k \in SignalsOf(w, "progress") : value(k) = 100 <=> events[k].current = N
       /\ SignalsOf(w, "error") = {}
       /\ Cardinality(SignalsOf(w, "finished")) <= 1
       /\ Cardinality(SignalsOf(w, "progress")) <= N
       /\ \A k \in SignalsOf(w, "finished") :
             /\ Cardinality(SignalsOf(w, "progress")) = N
             /\ \A l \in SignalsOf(w, "progress") : l < k
       /\ workers[w].pc = "done" =>
             /\ Cardinality(SignalsOf(w, "finished")) = 1
             /\ \E k \in SignalsOf(w, "progress") :
                   /\ value(k) = 100
                   /\ \A l \in SignalsOf(w, "progress") : l <= k

\* the slot of a delivered progress signal puts its percentage on the bar, and the
\* "finished" box of a run opens when all its N reports are in the status list's past
ShownInOrder ==
    delivered' = delivered + 1 =>
        LET e == events[delivered + 1]
        IN IF e.w \notin BatchRuns THEN TRUE
           ELSE IF e.sig = "progress"
           THEN /\ win'.batch_progress_bar = Percent(e.current, e.total)
                /\ e.current = e.total => win'.batch_progress_bar = 100
           ELSE /\ e.sig = "finished"
                /\ Len(win'.dialogs) = Len(win.dialogs) + 1
                /\ win'.dialogs[Len(win'.dialogs)].kind = "information"
                /\ Cardinality({l \in SignalsOf(e.w, "progress") : l <= delivered})
                      = Len(workers[e.w].file_paths)

\* C19: in one batch run started from the window, the percentage of the progress
\* signals never decreases and is 100 at the last file; the Worker emits one finished
\* signal, after all N progress signals, and no error signal although files fail; the
\* box that reports the end of the run opens only after every file has been reported.
C19_BatchProgress ==
    /\ [](\A w \in BatchRuns : RunInOrder(w))
    /\ [][ShownInOrder]_vars

\* a run over two files, one of which failed, is over and its box is open
C19_Witness ==
    \E w \in BatchRuns :
        /\ workers[w].pc = "done"
        /\ Len(workers[w].file_paths) = 2
        /\ \E k \in SignalsOf(w, "progress") : events[k].status # SuccessStatus
        /\ \E k \in SignalsOf(w, "progress") : events[k].status = SuccessStatus
        /\ win.dialogs # <<>> /\ Top.kind = "information" /\ Top.w = w
        /\ win.batch_progress_bar = 100

\* C20: once nothing is in progress any more, and nothing but extractions was ever
\* started, the table and current_exif_data hold the result of the extraction that
\* was requested last (if it succeeded), whatever the order in which the Workers
\* finished.
C20_LatestExtractionWins ==
    (Quiescent /\ \A w \in Started : workers[w].func = "extract") =>
        \A k \in SignalsOf(Len(workers), "finished") :
            win.current_exif_data = events[k].data

\* what the single-image tab shows and works on
TabFields(w) == <<w.exif_table, w.current_exif_data, w.current_image_path>>

\* the slot of an error signal opens its box and nothing else; closing that box, and
\* every step of a Worker, leaves the tab as it is and starts nothing
ErrorLeavesTab ==
    /\ (delivered' = delivered + 1 /\ events[delivered + 1].sig = "error") =>
          /\ TabFields(win') = TabFields(win)
          /\ workers' = workers
          /\ win'.dialogs = Append(win.dialogs,
                Dialog("error", events[delivered + 1].w, events[delivered + 1].msg))
    /\ (win.dialogs # <<>> /\ Len(win'.dialogs) < Len(win.dialogs) /\ Top.kind = "error") =>
          /\ TabFields(win') = TabFields(win)
          /\ workers' = workers
    /\ (Len(workers') = Len(workers) /\ workers' # workers) => win' = win

\* C22: when a Worker reports an error, the table rows, current_exif_data and
\* current_image_path stay as they were when the operation was started (neither the
\* Worker nor on_processor_error nor closing the error box changes them), the table
\* never holds the data of a failed Worker, and no refresh extraction follows a
\* failure.
C22_ErrorLeavesTab ==
    /\ [][ErrorLeavesTab]_vars
    /\ [](win.table_from # 0 => ~workers[win.table_from].raised)
    /\ [](\A e \in Started : workers[e].origin = "refresh" => ~workers[workers[e].after].raised)

\* a failed edit or delete has been reported, its box is closed, and the table still
\* has its rows
C22_Witness ==
    /\ Quiescent
    /\ win.exif_table # EmptyMap
    /\ \E w \in Started :
          /\ workers[w].func \in {"edit", "delete"} /\ workers[w].raised
          /\ \E k \in 1..Len(win.shown) : win.shown[k].kind = "error" /\ win.shown[k].w = w

----------------------------------------------------------------------------
(* GPSConverter (src/src/processing/gps_converter.py).  Python values are      *)
(* records tagged with their type; a float that stands for an angle is held   *)
(* as its number of arc seconds (degrees * 3600), which is exact for the      *)
(* whole degrees, minutes and seconds of the inputs below.                    *)

PyNone == [t |-> "none", i |-> 0, s |-> ""]

\* an int of 1024 bits or more
BigInt == [t |-> "bigint", i |-> 0, s |-> ""]

\* a tuple, a list, or another iterable (kind "iter": a generator, an array)
PySeq(kind, items) == [t |-> kind, items |-> items]

PyDict(d) == [t |-> "dict", d |-> d]

\* bool(value)
Truthy(v) ==
    IF v.t = "none" THEN FALSE
    ELSE IF v.t = "str" THEN v.s # ""
    ELSE IF v.t = "int" THEN v.i # 0
    ELSE IF v.t = "bigint" THEN TRUE
    ELSE IF v.t = "dict" THEN DOMAIN v.d # {}
    ELSE v.items # <<>>

\* the numbers whose decimal literal float() is given as a string
FloatTexts == 0..60

\* float(x): [exc, n]
Float(x) ==
    IF x.t = "int" THEN [exc |-> "", n |-> x.i]
    ELSE IF x.t = "bigint" THEN [exc |-> "OverflowError", n |-> 0]
    ELSE IF x.t = "str"
    THEN IF \E n \in FloatTexts : x.s = Dec(n)
         THEN [exc |-> "", n |-> CHOOSE n \in FloatTexts : x.s = Dec(n)]
         ELSE [exc |-> "ValueError", n |-> 0]
    ELSE [exc |-> "TypeError", n |-> 0]

\* str.upper(), on the reference letters
Upper(text) ==
    IF text = "n" THEN "N" ELSE IF text = "s" THEN "S"
    ELSE IF text = "e" THEN "E" ELSE IF text = "w" THEN "W" ELSE text

\* the results of a call: a value, None, or an exception that leaves it
Value(v) == [kind |-> "value", v |-> v, exc |-> ""]
ReturnNone == [kind |-> "none", v |-> 0, exc |-> ""]
Raised(exc) == [kind |-> "raise", v |-> 0, exc |-> exc]

\* _dms_to_decimal(dms_data, ref), in arc seconds
DmsToDecimal(dms_data, ref) ==
    IF dms_data.t \notin {"tuple", "list", "iter"} THEN ReturnNone
    ELSE IF Len(dms_data.items) < 3 THEN ReturnNone
    ELSE LET degrees == Float(dms_data.items[1])
             minutes == Float(dms_data.items[2])
             seconds == Float(dms_data.items[3])
             exc == IF degrees.exc # "" THEN degrees.exc
                    ELSE IF minutes.exc # "" THEN minutes.exc
                    ELSE seconds.exc
             decimal == (degrees.n * 3600) + (minutes.n * 60) + seconds.n
         IN IF exc \in {"ValueError", "TypeError", "AttributeError"} THEN ReturnNone
            ELSE IF exc # "" THEN Raised(exc)
            ELSE IF ref.t = "str" /\ Upper(ref.s) \in {"S", "W"} THEN Value(-decimal)
            ELSE Value(decimal)

\* gps_info.get(name, gps_info.get(number))
GpsGet(d, name, number) ==
    IF NameKey(name) \in DOMAIN d THEN d[NameKey(name)]
    ELSE IF IdKey(number) \in DOMAIN d THEN d[IdKey(number)]
    ELSE PyNone

\* parse_exif_gps(gps_info): a pair of angles in arc seconds, None, or an exception
ParseExifGps(gps_info) ==
    IF ~Truthy(gps_info) \/ gps_info.t # "dict" THEN ReturnNone
    ELSE LET lat_ref == GpsGet(gps_info.d, "GPSLatitudeRef", 1)
             lat_data == GpsGet(gps_info.d, "GPSLatitude", 2)
             lon_ref == GpsGet(gps_info.d, "GPSLongitudeRef", 3)
             lon_data == GpsGet(gps_info.d, "GPSLongitude", 4)
             latitude == DmsToDecimal(lat_data, lat_ref)
             longitude == DmsToDecimal(lon_data, lon_ref)
             Caught(r) == r.exc \in {"KeyError", "ValueError", "TypeError", "IndexError"}
         IN IF ~(Truthy(lat_ref) /\ Truthy(lat_data) /\ Truthy(lon_ref) /\ Truthy(lon_data))
            THEN ReturnNone
            ELSE IF latitude.kind = "raise"
            THEN IF Caught(latitude) THEN ReturnNone ELSE latitude
            ELSE IF longitude.kind = "raise"
            THEN IF Caught(longitude) THEN ReturnNone ELSE longitude
            ELSE IF latitude.kind = "none" \/ longitude.kind = "none" THEN ReturnNone
            ELSE IF ~(-324000 <= latitude.v /\ latitude.v <= 324000)
                    \/ ~(-648000 <= longitude.v /\ longitude.v <= 648000)
            THEN ReturnNone
            ELSE IF latitude.v = 0 /\ longitude.v = 0 THEN ReturnNone
            ELSE Value(<<latitude.v, longitude.v>>)

\* the frame of a call of a GPSConverter method
GpsCall(func, args) == [func |-> func, args |-> args, ret |-> ReturnNone, pc |-> "call"]

Dms(kind, d, m, sec) == PySeq(kind, <<d, m, sec>>)

LatRefs == {StrV("N"), StrV("s"), StrV(""), PyNone}

LonRefs == {StrV("E"), StrV("W")}

LatDatas ==
    {Dms("tuple", IntV(40), IntV(26), IntV(46)), Dms("tuple", IntV(0), IntV(0), IntV(0)),
     Dms("tuple", IntV(90), IntV(0), IntV(0)), Dms("tuple", IntV(90), IntV(0), IntV(1)),
     Dms("iter", StrV("40"), IntV(26), IntV(46)), Dms("list", StrV("x"), IntV(0), IntV(0)),
     Dms("tuple", IntV(1), PyNone, IntV(0)), Dms("tuple", BigInt, IntV(0), IntV(0)),
     PySeq("tuple", <<IntV(40), IntV(26), IntV(46), IntV(7)>>),
     PySeq("list", <<IntV(40), IntV(26)>>), PySeq("tuple", <<>>), StrV("40"), IntV(40)}

LonDatas ==
    {Dms("tuple", IntV(79), IntV(58), IntV(56)), Dms("tuple", IntV(0), IntV(0), IntV(0)),
     Dms("tuple", IntV(180), IntV(0), IntV(0)), Dms("tuple", IntV(180), IntV(0), IntV(1)),
     Dms("tuple", IntV(1), IntV(0), BigInt), PySeq("iter", <<IntV(79), IntV(58)>>)}

\* the mapping with the four entries under their names, under the numbers 1..4,
\* under both (the named latitude being None), or with the longitude missing
GpsInfo(form, lat_ref, lat_data, lon_ref, lon_data) ==
    LET lat_names == (NameKey("GPSLatitudeRef") :> lat_ref) @@ (NameKey("GPSLatitude") :> lat_data)
        lon_names == (NameKey("GPSLongitudeRef") :> lon_ref) @@ (NameKey("GPSLongitude") :> lon_data)
        lat_numbers == (IdKey(1) :> lat_ref) @@ (IdKey(2) :> lat_data)
        lon_numbers == (IdKey(3) :> lon_ref) @@ (IdKey(4) :> lon_data)
    IN PyDict(IF form = "names" THEN lat_names @@ lon_names
              ELSE IF form = "numbers" THEN lat_numbers @@ lon_numbers
              ELSE IF form = "mixed" THEN lat_names @@ lon_numbers
              ELSE IF form = "shadowed"
              THEN (NameKey("GPSLatitude") :> PyNone) @@ lat_numbers @@ lon_numbers
              ELSE lat_names @@ (IdKey(3) :> lon_ref))

GpsForms == {"names", "numbers", "mixed", "shadowed", "partial"}

GpsInfos ==
    {GpsInfo(form, lat_ref, lat_data, lon_ref, lon_data) :
        form \in GpsForms, lat_ref \in LatRefs, lat_data \in LatDatas,
        lon_ref \in LonRefs, lon_data \in LonDatas}
    \cup {PyNone, PyDict(EmptyMap), StrV("GPS"), PySeq("list", <<IntV(1), IntV(2)>>)}

GpsInit ==
    /\ fs = EmptyMap
    /\ \E gps_info \in GpsInfos : workers = <<GpsCall("parse_exif_gps", gps_info)>>
    /\ events = <<>>
    /\ delivered = 0
    /\ snap = [init |-> fs, call |-> fs]
    /\ win = WinInit

parse_exif_gps ==
    /\ At(1, "call")
    /\ workers[1].func = "parse_exif_gps"
    /\ workers' = [workers EXCEPT ![1].ret = ParseExifGps(workers[1].args),
                                  ![1].pc = "returned"]
    /\ UNCHANGED <<fs, events, delivered, snap, win>>

GpsSpec == GpsInit /\ [][parse_exif_gps]_vars

----------------------------------------------------------------------------
(* Properties of parse_exif_gps (GpsSpec) *)

\* the entry is there and is not empty
NonEmptyEntry(v) ==
    /\ v # PyNone /\ v # StrV("")
    /\ v.t \in {"tuple", "list", "iter"} => v.items # <<>>

IsNumber(x) == x.t \in {"int", "bigint"} \/ (x.t = "str" /\ \E n \in FloatTexts : x.s = Dec(n))

\* the entry has at least three components, the first three being numbers
HasDms(v) ==
    /\ v.t \in {"tuple", "list", "iter"}
    /\ Len(v.items) >= 3
    /\ \A k \in 1..3 : IsNumber(v.items[k])

\* the size of the angle in arc seconds lies within the limit
AngleWithin(v, limit) ==
    /\ \A k \in 1..3 : v.items[k].t # "bigint"
    /\ LET a == (Float(v.items[1]).n * 3600) + (Float(v.items[2]).n * 60) + Float(v.items[3]).n
       IN -limit <= a /\ a <= limit

AngleIsZero(v) == \A k \in 1..3 : Float(v.items[k]).n = 0

\* the conditions under which the claim has a pair returned
GpsValid(gps_info) ==
    /\ gps_info.t = "dict"
    /\ LET lat_ref == GpsGet(gps_info.d, "GPSLatitudeRef", 1)
           lat_data == GpsGet(gps_info.d, "GPSLatitude", 2)
           lon_ref == GpsGet(gps_info.d, "GPSLongitudeRef", 3)
           lon_data == GpsGet(gps_info.d, "GPSLongitude", 4)
       IN /\ NonEmptyEntry(lat_ref) /\ NonEmptyEntry(lat_data)
          /\ NonEmptyEntry(lon_ref) /\ NonEmptyEntry(lon_data)
          /\ HasDms(lat_data) /\ HasDms(lon_data)
          /\ AngleWithin(lat_data, 324000) /\ AngleWithin(lon_data, 648000)
          /\ ~(AngleIsZero(lat_data) /\ AngleIsZero(lon_data))

\* C12: parse_exif_gps returns a pair exactly when the mapping holds non-empty
\* latitude ref, latitude, longitude ref and longitude entries (under their names,
\* or under the keys 1..4 when the names are absent), both angles have at least three
\* components, the latitude lies in [-90, 90], the longitude in [-180, 180] and the
\* pair is not (0, 0); in every other case it returns None, and it never raises.
C12_ParseExifGps ==
    (workers[1].func = "parse_exif_gps" /\ workers[1].pc = "returned") =>
        LET ret == workers[1].ret IN
        /\ ret.kind # "raise"
        /\ ret.kind = "value" <=> GpsValid(workers[1].args)

----------------------------------------------------------------------------
(* GPSConverter._dms_to_decimal on its own: one call, on every pair of the     *)
(* data and reference values below.                                           *)

DmsDatas == LatDatas \cup LonDatas \cup {StrV("402646"), PyNone}

DmsRefs == {StrV("N"), StrV("S"), StrV("s"), StrV("E"), StrV("W"), StrV("w"),
            StrV(""), StrV("x"), PyNone, IntV(1)}

DmsInit ==
    /\ fs = EmptyMap
    /\ \E dms_data \in DmsDatas, ref \in DmsRefs :
          workers = <<GpsCall("_dms_to_decimal", [dms_data |-> dms_data, ref |-> ref])>>
    /\ events = <<>>
    /\ delivered = 0
    /\ snap = [init |-> fs, call |-> fs]
    /\ win = WinInit

dms_to_decimal ==
    /\ At(1, "call")
    /\ workers[1].func = "_dms_to_decimal"
    /\ workers' = [workers EXCEPT
                      ![1].ret = DmsToDecimal(workers[1].args.dms_data, workers[1].args.ref),
                      ![1].pc = "returned"]
    /\ UNCHANGED <<fs, events, delivered, snap, win>>

DmsSpec == DmsInit /\ [][dms_to_decimal]_vars

\* the reference is a string equal to S or W, ignoring case
SouthOrWest(ref) == ref.t = "str" /\ ref.s \in {"S", "s", "W", "w"}

\* C21: _dms_to_decimal returns degrees + minutes/60 + seconds/3600 (here in arc
\* seconds) for a list, tuple or other iterable with at least three numeric
\* components, negated exactly when ref is S or W in either case; for every other
\* input it returns None.
C21_DmsToDecimal ==
    (workers[1].func = "_dms_to_decimal" /\ workers[1].pc = "returned") =>
        LET dms_data == workers[1].args.dms_data
            ref == workers[1].args.ref
            ret == workers[1].ret
            angle == (Float(dms_data.items[1]).n * 3600) + (Float(dms_data.items[2]).n * 60)
                     + Float(dms_data.items[3]).n
        IN IF HasDms(dms_data)
           THEN /\ ret.kind = "value"
                /\ ret.v = IF SouthOrWest(ref) THEN -angle ELSE angle
           ELSE ret = ReturnNone

----------------------------------------------------------------------------
(* GPSConverter.to_geohash, one loop iteration per step.  A coordinate is held *)
(* in units of 1 / GeoScale degree; GeoScale is a power of two large enough   *)
(* for every midpoint of the first 5 * MaxPrecision bisections to be a whole  *)
(* number of units, as it is an exact float in the code.  The string is held  *)
(* as the sequence of its characters.                                         *)

MaxPrecision == 2

GeoScale == 2 ^ ((5 * (MaxPrecision + 1)) \div 2)

base32 ==
    <<"0", "1", "2", "3", "4", "5", "6", "7", "8", "9", "b", "c", "d", "e", "f", "g",
      "h", "j", "k", "m", "n", "p", "q", "r", "s", "t", "u", "v", "w", "x", "y", "z">>

\* ch | (1 << n)
SetBit(ch, n) == IF (ch \div (2 ^ n)) % 2 = 1 THEN ch ELSE ch + (2 ^ n)

\* faulty variant: the first bit is a latitude bit
GeoCallLatitudeFirst(latitude, longitude, precision) ==
    [func |-> "to_geohash",
     args |-> [latitude |-> latitude, longitude |-> longitude, precision |-> precision],
     lat_range |-> <<-90 * GeoScale, 90 * GeoScale>>,
     lon_range |-> <<-180 * GeoScale, 180 * GeoScale>>,
     geohash |-> <<>>, bit |-> 0, ch |-> 0, even |-> FALSE,
     ret |-> ReturnNone, pc |-> "while"]

\* to_geohash(latitude, longitude, precision) at the head of its loop
GeoCall(latitude, longitude, precision) ==
    [func |-> "to_geohash",
     args |-> [latitude |-> latitude, longitude |-> longitude, precision |-> precision],
     lat_range |-> <<-90 * GeoScale, 90 * GeoScale>>,
     lon_range |-> <<-180 * GeoScale, 180 * GeoScale>>,
     geohash |-> <<>>, bit |-> 0, ch |-> 0, even |-> TRUE,
     ret |-> ReturnNone, pc |-> "while"]

\* the coordinates of the model: the corners, the centre, points inside and a point
\* outside the ranges
Latitudes ==
    {-90 * GeoScale, (-17 * GeoScale) - 3, 0, 1, (57 * GeoScale) + 83, 90 * GeoScale,
     100 * GeoScale}

Longitudes == {-180 * GeoScale, -1, 0, (10 * GeoScale) + 52, 180 * GeoScale}

GeoInit ==
    /\ fs = EmptyMap
    /\ \E latitude \in Latitudes, longitude \in Longitudes, precision \in 0..MaxPrecision :
          workers = <<GeoCall(latitude, longitude, precision)>>
    /\ events = <<>>
    /\ delivered = 0
    /\ snap = [init |-> fs, call |-> fs]
    /\ win = WinInit

\* one iteration of the while loop
GeoLoop ==
    /\ At(1, "while")
    /\ workers[1].func = "to_geohash"
    /\ Len(workers[1].geohash) < workers[1].args.precision
    /\ LET fr == workers[1]
           range == IF fr.even THEN fr.lon_range ELSE fr.lat_range
           x == IF fr.even THEN fr.args.longitude ELSE fr.args.latitude
           mid == (range[1] + range[2]) \div 2
           ch == IF x >= mid THEN SetBit(fr.ch, 4 - fr.bit) ELSE fr.ch
           halved == IF x >= mid THEN <<mid, range[2]>> ELSE <<range[1], mid>>
       IN workers' = [workers EXCEPT ![1] =
              [fr EXCEPT !.lon_range = IF fr.even THEN halved ELSE @,
                         !.lat_range = IF fr.even THEN @ ELSE halved,
                         !.even = ~fr.even,
                         !.bit = IF fr.bit < 4 THEN fr.bit + 1 ELSE 0,
                         !.ch = IF fr.bit < 4 THEN ch ELSE 0,
                         !.geohash = IF fr.bit < 4 THEN @ ELSE Append(@, base32[ch + 1])]]
    /\ UNCHANGED <<fs, events, delivered, snap, win>>

\* the loop condition fails: return geohash
GeoReturn ==
    /\ At(1, "while")
    /\ workers[1].func = "to_geohash"
    /\ ~(Len(workers[1].geohash) < workers[1].args.precision)
    /\ workers' = [workers EXCEPT ![1].ret = Value(workers[1].geohash), ![1].pc = "returned"]
    /\ UNCHANGED <<fs, events, delivered, snap, win>>

GeoNext == GeoLoop \/ GeoReturn

\* the call goes on running until it returns
GeoSpec == GeoInit /\ [][GeoNext]_vars /\ WF_vars(GeoNext)

----------------------------------------------------------------------------
(* Properties of to_geohash (GeoSpec) *)

\* the part of [lo, hi] that x is put in by k bisections (the upper half when x is
\* at or above the midpoint)
RECURSIVE Bisected(_, _, _, _)
Bisected(x, lo, hi, k) ==
    IF k = 0 THEN <<lo, hi>>
    ELSE LET mid == (lo + hi) \div 2
         IN IF x >= mid THEN Bisected(x, mid, hi, k - 1) ELSE Bisected(x, lo, mid, k - 1)

\* bit number n (from 0) of the geohash: longitude and latitude bits alternate
GeoBit(latitude, longitude, n) ==
    LET r == IF n % 2 = 0
             THEN Bisected(longitude, -180 * GeoScale, 180 * GeoScale, n \div 2)
             ELSE Bisected(latitude, -90 * GeoScale, 90 * GeoScale, n \div 2)
        x == IF n % 2 = 0 THEN longitude ELSE latitude
    IN IF x >= (r[1] + r[2]) \div 2 THEN 1 ELSE 0

\* character number j (from 1): its five bits, the most significant first
GeoChar(latitude, longitude, j) ==
    LET B(b) == GeoBit(latitude, longitude, (5 * (j - 1)) + b)
    IN base32[(16 * B(0)) + (8 * B(1)) + (4 * B(2)) + (2 * B(3)) + B(4) + 1]

Alphabet == {base32[k] : k \in 1..32}

\* C13: to_geohash returns (the call always ends) a string of exactly `precision`
\* characters of the 32-symbol alphabet, the j-th made of bits 5(j-1) .. 5(j-1)+4 of
\* the alternate bisection of [-180, 180] and [-90, 90] that starts with the
\* longitude, most significant bit first; while it runs, the string built so far is
\* the beginning of that string.
C13_Geohash ==
    /\ [](workers[1].func = "to_geohash" =>
            LET fr == workers[1] IN
            /\ Len(fr.geohash) <= fr.args.precision
            /\ \A j \in 1..Len(fr.geohash) :
                  /\ fr.geohash[j] \in Alphabet
                  /\ fr.geohash[j] = GeoChar(fr.args.latitude, fr.args.longitude, j)
            /\ fr.pc = "returned" =>
                  /\ fr.ret = Value(fr.geohash)
                  /\ Len(fr.geohash) = fr.args.precision)
    /\ <>(workers[1].pc = "returned")

\* the geohash "u4" of 57.648 N, 10.406 E
C13_Witness ==
    /\ workers[1].func = "to_geohash" /\ workers[1].pc = "returned"
    /\ workers[1].ret = Value(<<"u", "4">>)

----------------------------------------------------------------------------
(* SingleImageTab on its own: populate_exif_table, the user's edits of value   *)
(* cells, and one call of get_edited_data.                                    *)

\* a tag PIL has no name for
PaddingId == 59932

\* mappings as extract returns them
ExifDatas ==
    {EmptyMap,
     (NameKey("Make") :> StrV("Canon")) @@ (NameKey("ISOSpeedRatings") :> IntV(100)),
     (NameKey("FNumber") :> FloatV("2.8")) @@ (NameKey("GPSInfo") :> DictV("{}")),
     (IdKey(PaddingId) :> IntV(100)) @@ (NameKey("Make") :> StrV("Canon"))}

\* the texts the user types into a value cell
CellTexts == {"200", " 200", "abc", "2.8", "5", "{}", "[]", ""}

populate_exif_table ==
    /\ workers = <<>>
    /\ win.edits = 0
    /\ \E exif_data \in ExifDatas : win' = PopulateExifTable(win, exif_data, 0)
    /\ UNCHANGED <<fs, workers, events, delivered, snap>>

TypeCell ==
    /\ workers = <<>>
    /\ win.edits <= MaxEdits
    /\ \E tag \in DOMAIN win.exif_table, text \in CellTexts :
          /\ text # win.exif_table[tag]
          /\ win' = [win EXCEPT !.exif_table[tag] = text, !.edits = @ + 1]
    /\ UNCHANGED <<fs, workers, events, delivered, snap>>

get_edited_data ==
    /\ workers = <<>>
    /\ workers' = <<[func |-> "get_edited_data", args |-> <<>>,
                     ret |-> Value(GetEditedData(win)), pc |-> "returned"]>>
    /\ UNCHANGED <<fs, events, delivered, snap, win>>

TableNext == populate_exif_table \/ TypeCell \/ get_edited_data

TableSpec == Init /\ [][TableNext]_vars

----------------------------------------------------------------------------
(* Properties of get_edited_data (TableSpec) *)

\* the value extract returned for the tag the row shows, if any
Extracted(tag) ==
    {win.current_exif_data[key] :
        key \in {x \in DOMAIN win.current_exif_data : TagText(x) = tag}}

\* what the claim has get_edited_data return for a row
Coerced(tag, text) ==
    IF \E v \in Extracted(tag) : v.t = "int" /\ ParseInt(text).ok
    THEN IntV(ParseInt(text).n)
    ELSE IF \E v \in Extracted(tag) : v.t = "float" /\ ParseFloat(text).ok
    THEN ParseFloat(text).v
    ELSE IF \E v \in Extracted(tag) : v.t = "dict" /\ JsonLoads(text).ok /\ JsonLoads(text).v.t = "dict"
    THEN JsonLoads(text).v
    ELSE StrV(text)

\* C14: get_edited_data returns, without raising, one entry per table row under the
\* row's tag text: the cell text converted to int, float or decoded mapping when the
\* value extracted for that tag was an int, a float or a dict and the text parses as
\* such, and the cell text itself in every other case.
C14_BestEffortCoercion ==
    (workers # <<>> /\ workers[1].func = "get_edited_data") =>
        LET ret == workers[1].ret IN
        /\ ret.kind = "value"
        /\ DOMAIN ret.v = DOMAIN win.exif_table
        /\ \A tag \in DOMAIN ret.v : ret.v[tag] = Coerced(tag, win.exif_table[tag])

----------------------------------------------------------------------------
(* The single-file application src/UI/UI.py: EXIFManager and its own           *)
(* EXIFProcessor and BatchProcessor threads.  Its definitions carry the prefix *)
(* UI_ where src/src has a definition of the same name.  The thread's         *)
(* extract_exif, delete_exif and piexif.insert steps are those of StepOpen,   *)
(* StepBackup, StepRemove and StepInsert.                                     *)

\* EXIFProcessor(image_path, operation, exif_data) of UI.py, at the start of run();
\* `checked` records the state of "Preserve original file" when it was created
UI_EXIFProcessor(image_path, operation, exif_data, checked) ==
    [Frame(operation, image_path, exif_data, TRUE, checked, <<>>, "")
        EXCEPT !.pc = IF operation = "extract" THEN "open"
                      ELSE IF operation = "edit" THEN "load" ELSE "backup"]

\* edit_exif: piexif.load, the merge loop and piexif.dump
UI_StepLoad(w) ==
    /\ At(w, "load")
    /\ LET fr == workers[w]
           r == PiexifLoad(fs, fr.path)
           m == MergeEdit(r.dict, fr.exif_data, fr.has_data)
       IN workers' = [workers EXCEPT ![w] =
              IF ~r.ok THEN Raise(fr, Failed("edit", r.cause))
              ELSE IF ~m.ok THEN Raise(fr, Failed("edit", m.cause))
              ELSE [fr EXCEPT !.exif_bytes = PiexifDump(m.dict), !.pc = "edit_backup"]]
    /\ UNCHANGED <<fs, events, delivered, snap, win>>

\* edit_exif: shutil.copy2(self.image_path, backup_path)
UI_StepEditBackup(w) ==
    /\ At(w, "edit_backup")
    /\ LET fr == workers[w]
           r == Copy2(fs, fr.path, BackupPath(fr.path))
       IN /\ fs' = r.fs
          /\ workers' = [workers EXCEPT ![w] =
                 IF r.ok THEN [fr EXCEPT !.pc = "insert"]
                 ELSE Raise(fr, Failed("edit", r.cause))]
    /\ UNCHANGED <<events, delivered, snap, win>>

UI_open_single_image ==
    /\ CanClick
    /\ \E file_path \in Selectable \cap DOMAIN fs :
          win' = [win EXCEPT !.current_image_path = file_path]
    /\ UNCHANGED <<fs, workers, events, delivered, snap>>

UI_extract_exif ==
    /\ CanClick
    /\ ExtractExif(win, "button", 0)
    /\ UNCHANGED <<fs, events, delivered, snap>>

\* save_exif_changes of UI.py, up to the confirmation dialog
UI_save_exif_changes ==
    /\ CanClick
    /\ win' = IF win.current_image_path = NoPath
              THEN OpenDialog(win, Dialog("warning", 0, <<"Please select an image first.">>))
              ELSE IF win.current_exif_data = EmptyMap
              THEN OpenDialog(win, Dialog("warning", 0, <<"No EXIF data to save.">>))
              ELSE OpenDialog(win, Dialog("confirm_save", 0,
                                          <<"This will modify the EXIF data. Continue?">>))
    /\ UNCHANGED <<fs, workers, events, delivered, snap>>

\* delete_all_exif of UI.py, up to the confirmation dialog
UI_delete_all_exif ==
    /\ CanClick
    /\ win' = IF win.current_image_path = NoPath
              THEN OpenDialog(win, Dialog("warning", 0, <<"Please select an image first.">>))
              ELSE OpenDialog(win, Dialog("confirm_delete", 0,
                                 <<"This will permanently delete all EXIF data. Continue?">>))
    /\ UNCHANGED <<fs, workers, events, delivered, snap>>

\* after Yes: the backup copy if the box is checked (an exception of the copy ends
\* the slot), then the thread is created and started
UI_AnswerYes ==
    /\ win.dialogs # <<>>
    /\ Top.kind \in {"confirm_save", "confirm_delete"}
    /\ LET checked == win.preserve_original_cb
           path == win.current_image_path
           r == Copy2(fs, path, BackupPath(path))
           operation == IF Top.kind = "confirm_save" THEN "edit" ELSE "delete"
           exif_data == IF operation = "edit"
                        THEN [tag \in {TagText(key) : key \in DOMAIN win.current_exif_data} |->
                                 LET key == CHOOSE x \in DOMAIN win.current_exif_data :
                                               TagText(x) = tag
                                 IN win.current_exif_data[key]]
                        ELSE EmptyMap
       IN IF checked /\ ~r.ok
          THEN /\ win' = CloseTop(win)
               /\ UNCHANGED <<fs, workers>>
          ELSE /\ fs' = IF checked THEN r.fs ELSE fs
               /\ StartWorker(CloseTop(win),
                              UI_EXIFProcessor(path, operation, exif_data, checked),
                              operation, 0)
    /\ UNCHANGED <<events, delivered, snap>>

\* on_exif_deleted after its box is closed: the table and the mapping are cleared
UI_CloseDeleted ==
    /\ win.dialogs # <<>>
    /\ Top.kind = "deleted"
    /\ win' = [CloseTop(win) EXCEPT !.exif_table = EmptyMap, !.current_exif_data = EmptyMap]
    /\ UNCHANGED <<fs, workers, events, delivered, snap>>

\* the event loop delivers the next queued signal to its slot.  Setting an item while
\* the table is filled emits itemChanged, and on_exif_item_changed stores the cell's
\* text under the tag: the mapping ends up holding the texts.
UI_Deliver ==
    /\ delivered < Len(events)
    /\ delivered' = delivered + 1
    /\ LET e == events[delivered + 1]
           func == workers[e.w].func
           shown == PopulateExifTable(win, e.data, e.w)
       IN win' =
            IF e.sig = "error"
            THEN OpenDialog(win, Dialog("error", e.w, e.msg))
            ELSE IF func = "extract"
            THEN [shown EXCEPT !.current_exif_data =
                     [key \in DOMAIN e.data |-> StrV(shown.exif_table[TagText(key)])]]
            ELSE IF func = "edit"
            THEN OpenDialog(win, Dialog("information", e.w, e.msg))
            ELSE OpenDialog(win, Dialog("deleted", e.w, e.msg))
    /\ UNCHANGED <<fs, workers, events, snap>>

UI_Next ==
    /\ \/ UI_open_single_image
       \/ UI_extract_exif
       \/ UI_save_exif_changes
       \/ UI_delete_all_exif
       \/ UI_AnswerYes
       \/ AnswerNo
       \/ CloseMessage
       \/ UI_CloseDeleted
       \/ UI_Deliver
       \/ TogglePreserve
       \/ \E w \in 1..Len(workers) : StepOpen(w)
       \/ \E w \in 1..Len(workers) : UI_StepLoad(w)
       \/ \E w \in 1..Len(workers) : UI_StepEditBackup(w)
       \/ \E w \in 1..Len(workers) : StepInsert(w)
       \/ \E w \in 1..Len(workers) : StepBackup(w)
       \/ \E w \in 1..Len(workers) : StepRemove(w)
       \/ \E w \in 1..Len(workers) : StepEmit(w)
    /\ ByUser(workers') <= MaxRuns

UI_Spec == Init /\ [][UI_Next]_vars

\* C17: in UI.py, when "Preserve original file" was unchecked at every save and
\* delete so far, no .backup file has been written.
C17_UI_BackupOnlyIfChecked ==
    (\A w \in Started : ~workers[w].preserve_original) =>
        \A p \in Selectable : SameFile(fs, snap.init, BackupPath(p))

----------------------------------------------------------------------------
(* BatchProcessor.run of UI.py on its own: one run, on every list of up to    *)
(* MaxFiles paths, every operation and every file system over the batch paths. *)
(* The EXIFProcessor made for each file is run by a plain call of its run(),   *)
(* in the batch thread; its signals have no slot and carry w = 0 here.         *)

\* the first position of the loop body for file number i (0-based)
UI_BatchBody(fr, i) ==
    IF i >= Len(fr.file_paths) THEN [fr EXCEPT !.i = i, !.pc = "ui_finished"]
    ELSE IF fr.preserve_original
    THEN [fr EXCEPT !.i = i, !.pc = "ui_bcopy"]
    ELSE [fr EXCEPT !.i = i, !.path = fr.file_paths[i + 1], !.pc = "ui_run"]

UI_BatchProcessor(file_list, operation, exif_data, has_data, preserve_original) ==
    UI_BatchBody(Frame("ui_batch", NoPath, exif_data, has_data, preserve_original,
                       file_list, operation), 0)

\* faulty variant: the exception of the file's operation reaches the batch loop
UI_CaughtByLoop(fr, msg) ==
    [fr |-> [fr EXCEPT !.status = ErrorStatus(msg), !.pc = "ui_report"],
     sig |-> <<Signal("error", 0, EmptyMap, msg, 0, 0, "", NoMsg)>>]

\* EXIFProcessor.run: except Exception as e: self.error.emit(str(e)); run() returns
\* and BatchProcessor.run goes on to file_processed.emit(..., "Success")
UI_Caught(fr, msg) ==
    [fr |-> [fr EXCEPT !.status = SuccessStatus, !.pc = "ui_report"],
     sig |-> <<Signal("error", 0, EmptyMap, msg, 0, 0, "", NoMsg)>>]

\* EXIFProcessor.run: self.finished.emit(result)
UI_Finished(fr, message) ==
    [fr |-> [fr EXCEPT !.status = SuccessStatus, !.pc = "ui_report"],
     sig |-> <<Signal("finished", 0, EmptyMap, <<message>>, 0, 0, "", NoMsg)>>]

UI_Goto(fr, pc) == [fr |-> [fr EXCEPT !.pc = pc], sig |-> <<>>]

UI_Step(w, r) ==
    /\ workers' = [workers EXCEPT ![w] = r.fr]
    /\ events' = events \o r.sig

\* shutil.copy2(file_path, new_path); working_path = str(new_path)
UI_StepBatchCopy(w) ==
    /\ At(w, "ui_bcopy")
    /\ LET fr == workers[w]
           file_path == fr.file_paths[fr.i + 1]
           new_path == ModifiedPath(file_path)
           r == Copy2(fs, file_path, new_path)
       IN /\ fs' = r.fs
          /\ workers' = [workers EXCEPT ![w] =
                 IF r.ok THEN [fr EXCEPT !.path = new_path, !.pc = "ui_run"]
                 ELSE [fr EXCEPT !.status = ErrorStatus(<<r.cause>>), !.pc = "ui_report"]]
    /\ UNCHANGED <<events, delivered, snap, win>>

\* processor.run(): the branch on self.operation
UI_StepBatchRun(w) ==
    /\ At(w, "ui_run")
    /\ LET fr == workers[w]
       IN UI_Step(w, IF fr.operation = "edit" THEN UI_Goto(fr, "ui_load")
                     ELSE IF fr.operation = "delete" THEN UI_Goto(fr, "ui_backup")
                     ELSE UI_Caught(fr, <<"Unknown operation: ", fr.operation>>))
    /\ UNCHANGED <<fs, delivered, snap, win>>

\* edit_exif: piexif.load, the merge loop and piexif.dump
UI_StepBatchLoad(w) ==
    /\ At(w, "ui_load")
    /\ LET fr == workers[w]
           r == PiexifLoad(fs, fr.path)
           m == MergeEdit(r.dict, fr.exif_data, fr.has_data)
       IN UI_Step(w, IF ~r.ok THEN UI_Caught(fr, Failed("edit", r.cause))
                     ELSE IF ~m.ok THEN UI_Caught(fr, Failed("edit", m.cause))
                     ELSE UI_Goto([fr EXCEPT !.exif_bytes = PiexifDump(m.dict)], "ui_backup"))
    /\ UNCHANGED <<fs, delivered, snap, win>>

\* edit_exif and delete_exif: shutil.copy2(self.image_path, backup_path)
UI_StepBatchBackup(w) ==
    /\ At(w, "ui_backup")
    /\ LET fr == workers[w]
           r == Copy2(fs, fr.path, BackupPath(fr.path))
       IN /\ fs' = r.fs
          /\ UI_Step(w, IF ~r.ok THEN UI_Caught(fr, Failed(fr.operation, r.cause))
                        ELSE UI_Goto(fr, IF fr.operation = "edit" THEN "ui_insert"
                                         ELSE "ui_remove"))
    /\ UNCHANGED <<delivered, snap, win>>

UI_StepBatchInsert(w) ==
    /\ At(w, "ui_insert")
    /\ LET fr == workers[w]
           r == PiexifInsert(fs, fr.exif_bytes, fr.path)
       IN /\ fs' = r.fs
          /\ UI_Step(w, IF r.ok THEN UI_Finished(fr, EditedMessage)
                        ELSE UI_Caught(fr, Failed("edit", r.cause)))
    /\ UNCHANGED <<delivered, snap, win>>

UI_StepBatchRemove(w) ==
    /\ At(w, "ui_remove")
    /\ LET fr == workers[w]
           r == PiexifRemove(fs, fr.path)
       IN /\ fs' = r.fs
          /\ UI_Step(w, IF r.ok THEN UI_Finished(fr, DeletedMessage)
                        ELSE UI_Caught(fr, Failed("delete", r.cause)))
    /\ UNCHANGED <<delivered, snap, win>>

\* file_processed.emit(basename, status), progress.emit(int((i + 1) / total * 100)),
\* then the next iteration
UI_StepBatchReport(w) ==
    /\ At(w, "ui_report")
    /\ LET fr == workers[w]
           total_files == Len(fr.file_paths)
       IN /\ events' = events \o
                 <<Signal("file_processed", w, EmptyMap, NoMsg, 0, 0,
                          Basename(fr.file_paths[fr.i + 1]), fr.status),
                   Signal("progress", w, EmptyMap, NoMsg,
                          Percent(fr.i + 1, total_files), 0, "", NoMsg)>>
          /\ workers' = [workers EXCEPT ![w] = UI_BatchBody(fr, fr.i + 1)]
    /\ UNCHANGED <<fs, delivered, snap, win>>

\* self.finished.emit() after the loop
UI_StepBatchFinished(w) ==
    /\ At(w, "ui_finished")
    /\ events' = Append(events, Signal("finished", w, EmptyMap, NoMsg, 0, 0, "", NoMsg))
    /\ workers' = [workers EXCEPT ![w].pc = "done"]
    /\ UNCHANGED <<fs, delivered, snap, win>>

UI_BatchInit ==
    /\ fs \in FileSystems(BatchPaths, BatchContents)
    /\ \E file_list \in SeqsUpTo(BatchPaths, MaxFiles),
          operation \in {"delete", "edit", "rotate"},
          preserve_original \in BOOLEAN,
          has_data \in BOOLEAN :
          workers = <<UI_BatchProcessor(file_list, operation, ("Make" :> StrV("Nikon")),
                                        has_data, preserve_original)>>
    /\ events = <<>>
    /\ delivered = 0
    /\ snap = [init |-> fs, call |-> fs]
    /\ win = WinInit

UI_BatchNext ==
    \/ UI_StepBatchCopy(1)
    \/ UI_StepBatchRun(1)
    \/ UI_StepBatchLoad(1)
    \/ UI_StepBatchBackup(1)
    \/ UI_StepBatchInsert(1)
    \/ UI_StepBatchRemove(1)
    \/ UI_StepBatchReport(1)
    \/ UI_StepBatchFinished(1)

UI_BatchSpec == UI_BatchInit /\ [][UI_BatchNext]_vars

\* C18: in UI.py's BatchProcessor every file_processed signal follows the outcome of
\* that file: after a failed EXIF operation (its processor emitted error with a
\* message) the status is "Error: " and that message, and the status is "Success"
\* only right after its processor's operation succeeded (finished emitted).
C18_UI_StatusFollowsOutcome ==
    \A k \in 1..Len(events) :
        events[k].sig = "file_processed" =>
            LET ran == k > 1 /\ events[k - 1].w = 0
                failed == ran /\ events[k - 1].sig = "error"
                succeeded == ran /\ events[k - 1].sig = "finished"
            IN /\ failed => events[k].status = ErrorStatus(events[k - 1].msg)
               /\ events[k].status = SuccessStatus => succeeded
               /\ ~ran => events[k].status[1] = "Error: "

----------------------------------------------------------------------------
(* GPSConverter.to_utm and to_dms on their own.  An angle is held as a whole  *)
(* number of tenths of a degree for to_utm: for these the float quotient      *)
(* (longitude + 180) / 6 lies on the same side of every whole number as the   *)
(* exact one.                                                                 *)

\* to_utm(latitude, longitude), angles in tenths of a degree
ToUtm(latitude, longitude) ==
    LET zone == ((longitude + 1800) \div 60) + 1
        hemisphere == IF latitude >= 0 THEN "N" ELSE "S"
    IN <<"Zone ", Dec(zone), hemisphere,
         " (Approximate conversion - use specialized library for precise UTM)">>

\* the longitudes of [-180, 180] at every half degree, and the tenths next to
\* the zone borders
UtmLongitudes ==
    {5 * k : k \in -360..360} \cup {(60 * k) - 1 : k \in -29..30} \cup {(60 * k) + 1 : k \in -30..29}

UtmLatitudes == {-900, -450, -1, 0, 1, 450, 900}

UtmInit ==
    /\ fs = EmptyMap
    /\ \E latitude \in UtmLatitudes, longitude \in UtmLongitudes :
          workers = <<GpsCall("to_utm", [latitude |-> latitude, longitude |-> longitude])>>
    /\ events = <<>>
    /\ delivered = 0
    /\ snap = [init |-> fs, call |-> fs]
    /\ win = WinInit

to_utm ==
    /\ At(1, "call")
    /\ workers[1].func = "to_utm"
    /\ workers' = [workers EXCEPT
                      ![1].ret = Value(ToUtm(workers[1].args.latitude, workers[1].args.longitude)),
                      ![1].pc = "returned"]
    /\ UNCHANGED <<fs, events, delivered, snap, win>>

UtmSpec == UtmInit /\ [][to_utm]_vars

\* C26: for every longitude in [-180, 180] and latitude in [-90, 90] the label of
\* to_utm names a zone between 1 and 60, and the hemisphere N exactly when the
\* latitude is not negative.
C26_UtmZone ==
    (workers[1].func = "to_utm" /\ workers[1].pc = "returned") =>
        LET label == workers[1].ret.v IN
        /\ \E zone \in 1..60 : label[2] = Dec(zone)
        /\ label[3] = "N" <=> workers[1].args.latitude >= 0
        /\ label[3] \in {"N", "S"}

----------------------------------------------------------------------------
(* GPSConverter.to_dms.  An angle is held as a whole number of 1 / DmsScale   *)
(* degree; DmsScale is a power of two, so the angle and every intermediate    *)
(* value of decimal_to_dms are exact floats and the only rounding is that of  *)
(* the format {seconds:.2f}.                                                  *)

DmsScale == 2 ^ 20

Abs(n) == IF n < 0 THEN -n ELSE n

\* f"{seconds:.2f}", seconds in units of 1 / DmsScale: the nearest hundredth, the
\* even one of two that are equally near
Format2f(seconds) ==
    LET x == seconds * 25
        quarter == DmsScale \div 4
        down == x \div quarter
        rest == x % quarter
        cents == IF (2 * rest > quarter) \/ (2 * rest = quarter /\ down % 2 = 1)
                 THEN down + 1 ELSE down
    IN Dec(cents \div 100) \o "." \o Dec((cents % 100) \div 10) \o Dec(cents % 10)

\* decimal_to_dms(decimal_deg, is_latitude)
DecimalToDms(decimal_deg, is_latitude) ==
    LET abs_deg == Abs(decimal_deg)
        degrees == abs_deg \div DmsScale
        minutes_float == (abs_deg - (degrees * DmsScale)) * 60
        minutes == minutes_float \div DmsScale
        seconds == (minutes_float - (minutes * DmsScale)) * 60
        ref == IF is_latitude
               THEN (IF decimal_deg >= 0 THEN "N" ELSE "S")
               ELSE (IF decimal_deg >= 0 THEN "E" ELSE "W")
    IN <<Dec(degrees), "°", Dec(minutes), "'", Format2f(seconds), "\"", ref>>

\* to_dms(latitude, longitude)
ToDms(latitude, longitude) ==
    DecimalToDms(latitude, TRUE) \o <<", ">> \o DecimalToDms(longitude, FALSE)

\* whole and half degrees, the smallest angles, and angles just below a whole
\* minute or degree
DmsLatitudes ==
    {0, 1, -1, DmsScale - 1, -(DmsScale - 1), 90 * DmsScale, -90 * DmsScale,
     (45 * DmsScale) + (DmsScale \div 2), -((40 * DmsScale) + (DmsScale \div 4) + 3),
     (10 * DmsScale) + (((DmsScale * 6) + 59) \div 60) - 1, (89 * DmsScale) + DmsScale - 1,
     (33 * DmsScale) + 12345}

DmsLongitudes ==
    {0, 1, -1, DmsScale - 1, -(DmsScale - 1), 180 * DmsScale, -180 * DmsScale,
     (179 * DmsScale) + DmsScale - 1, -((74 * DmsScale) + (DmsScale \div 8)),
     (120 * DmsScale) + (((DmsScale * 30) + 59) \div 60) - 1,
     (7 * DmsScale) + (DmsScale \div 2) + 1, -((100 * DmsScale) + 54321)}

ToDmsInit ==
    /\ fs = EmptyMap
    /\ \E latitude \in DmsLatitudes, longitude \in DmsLongitudes :
          workers = <<GpsCall("to_dms", [latitude |-> latitude, longitude |-> longitude])>>
    /\ events = <<>>
    /\ delivered = 0
    /\ snap = [init |-> fs, call |-> fs]
    /\ win = WinInit

to_dms ==
    /\ At(1, "call")
    /\ workers[1].func = "to_dms"
    /\ workers' = [workers EXCEPT
                      ![1].ret = Value(ToDms(workers[1].args.latitude, workers[1].args.longitude)),
                      ![1].pc = "returned"]
    /\ UNCHANGED <<fs, events, delivered, snap, win>>

ToDmsSpec == ToDmsInit /\ [][to_dms]_vars

\* the text of a number of hundredths with two decimals
Hundredths(c) == Dec(c \div 100) \o "." \o Dec((c % 100) \div 10) \o Dec(c % 10)

\* one printed coordinate (seven pieces) against the angle it was made from
PrintedRight(text, angle, positive, negative) ==
    LET whole == Abs(angle) \div DmsScale
        part == Abs(angle) % DmsScale
    IN /\ text[1] = Dec(whole)
       /\ \E minutes \in 0..59 : text[3] = Dec(minutes)
       /\ \E cents \in 0..5999 : text[5] = Hundredths(cents)
       /\ text[7] = (IF angle >= 0 THEN positive ELSE negative)
       /\ \E minutes \in 0..59, cents \in 0..5999 :
             /\ text[3] = Dec(minutes) /\ text[5] = Hundredths(cents)
             \* minutes and seconds, in hundredths of a second, are within half a
             \* hundredth of the part of the angle after the whole degrees
             /\ LET exactMinutes == (part * 60) \div DmsScale
                    exactSeconds == ((part * 60) % DmsScale) * 60
                    printed == (((minutes - exactMinutes) * 6000) + cents) * (DmsScale \div 4)
                IN Abs(printed - (exactSeconds * 25)) <= DmsScale \div 8

\* C27: for every latitude in [-90, 90] and longitude in [-180, 180], each coordinate
\* printed by to_dms has the whole degrees of the absolute value, minutes in 0..59,
\* seconds with two decimals below 60.00 and the letter N or E for values >= 0, S or W
\* for negative ones, and degrees, minutes and seconds add up to the input within the
\* printed precision.
C27_ToDms ==
    (workers[1].func = "to_dms" /\ workers[1].pc = "returned") =>
        LET text == workers[1].ret.v IN
        /\ Len(text) = 15
        /\ PrintedRight(SubSeq(text, 1, 7), workers[1].args.latitude, "N", "S")
        /\ PrintedRight(SubSeq(text, 9, 15), workers[1].args.longitude, "E", "W")

====
